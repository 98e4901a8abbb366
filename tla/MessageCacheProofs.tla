------------------------- MODULE MessageCacheProofs -------------------------
(***************************************************************************)
(* Proofs about MessageCache, for any number of readers, documents and     *)
(* changes: its types; that the cached entry goes forward while every      *)
(* entry is written with its permit; and that what a call returns was so   *)
(* at some moment of the call.  For the last, what Store::changes returns  *)
(* since any id is related to the versions that the messages had.          *)
(***************************************************************************)
EXTENDS MessageCache, FiniteSetTheorems, WellFoundedInduction, TLAPS

-----------------------------------------------------------------------------
(* The inductive invariant                                                 *)

\* The reader with the placeholder guard builds the entry with a lock of its
\* own: nobody else has heard of it.
GuardAlone ==
    guard # NoReader =>
        /\ pc[guard] \in {"build", "scan", "revise", "publish"}
        /\ lock[got[guard].lock].permit = NoReader
        /\ cache.lock # got[guard].lock
        /\ \A r \in Readers \ {guard} : got[r].lock # got[guard].lock

\* The changes a reader has read reach at least to its entry.
ReadsAhead == \A r \in Readers : pc[r] = "lock" => changed[r].to >= got[r].id

\* A reader about to publish has set the revision of its lock to its entry.
Revised ==
    \A r \in Readers : pc[r] = "publish" =>
        /\ ~Unpermitted(r)
        /\ lock[got[r].lock].revision = got[r].id

\* Unless somebody is about to replace it, the cached entry is the revision of
\* its lock, and whoever has its permit works on an entry that is not older.
CachedRevision ==
    LET holder == lock[cache.lock].permit
        revised == lock[cache.lock].revision = cache.id
    IN  cache # NoEntry =>
            IF holder = NoReader THEN revised
            ELSE IF pc[holder] = "update" THEN revised /\ changed[holder].to >= cache.id
            ELSE got[holder].id >= cache.id

ForwardInv == unlocked \/ (Revised /\ CachedRevision)

\* Before anything is evicted or truncated, or fails, there is one lock, and
\* entries are written by the reader with the guard or with its permit.
QuietInv ==
    events = 0 =>
        /\ ~unlocked /\ trimmed = 0
        /\ \A k \in DOMAIN log : log[k] \notin {Gone, Truncated}
        /\ Len(lock) <= 1
        /\ Len(lock) = 1 => guard # NoReader \/ cache # NoEntry
        /\ cache # NoEntry => guard = NoReader
        /\ guard # NoReader => \A r \in Readers \ {guard} : pc[r] = "idle"
        /\ \A r \in Readers :
              /\ pc[r] \in {"build", "scan"} => guard = r
              /\ pc[r] \in {"update", "revise", "publish"} => ~Unpermitted(r)

CacheInv == TypeOK /\ GuardAlone /\ ReadsAhead /\ ForwardInv /\ QuietInv
-----------------------------------------------------------------------------
(* Facts about the operators                                               *)

\* A nonempty set of numbers up to n has a largest one: the ids that Build and
\* ReadChanges take the maximum of.
LEMMA BoundedMax ==
    ASSUME NEW n \in Nat, NEW S, S \subseteq 0..n, S # {}
    PROVE  Max(S) \in S /\ \A x \in S : x <= Max(S)
  <1> DEFINE R == {ss \in Nat \X Nat : ss[1] < ss[2]}
             Below == {n - x : x \in S}
  <1>1. IsWellFoundedOn(R, Nat)
    BY NatLessThanWellFounded, Zenon DEF OpToRel
  <1>2. Below \subseteq Nat /\ Below # {}
    <2>1. \A x \in S : n - x \in Nat
      OBVIOUS
    <2>2. PICK x \in S : TRUE
      OBVIOUS
    <2> QED
      BY <2>1, <2>2
  <1>3. PICK b \in Below : \A y \in Below : ~ (<<y, b>> \in R)
    BY <1>1, <1>2, WFMin, Zenon
  <1>4. PICK m \in S : b = n - m
    OBVIOUS
  <1>5. ASSUME NEW x \in S PROVE m >= x
    <2>1. n - x \in Below /\ n - x \in Nat
      OBVIOUS
    <2>2. ~ (<<n - x, b>> \in R)
      BY <1>3, <2>1
    <2>3. ~ (n - x < b)
      BY <1>2, <2>1, <2>2
    <2> QED
      BY <1>4, <2>3
  <1> HIDE DEF R, Below
  <1> QED
    BY <1>4, <1>5 DEF Max

\* Min of FiniteSetsExt is one of a nonempty set of naturals.
LEMMA LeastOne ==
    ASSUME NEW S, S \subseteq Nat, S # {}
    PROVE  Min(S) \in S
  <1> DEFINE R == {ss \in Nat \X Nat : ss[1] < ss[2]}
  <1>1. IsWellFoundedOn(R, Nat)
    BY NatLessThanWellFounded, Zenon DEF OpToRel
  <1>2. PICK m \in S : \A y \in S : ~ (<<y, m>> \in R)
    BY <1>1, WFMin, Zenon
  <1>3. ASSUME NEW y \in S PROVE m <= y
    <2>1. ~ (<<y, m>> \in R)
      BY <1>2
    <2> QED
      BY <2>1
  <1> QED
    BY <1>3 DEF Min

\* The entries that are left have ids of the log.
LEMMA KeptIds == Kept \subseteq DOMAIN log
  BY DEF Kept

\* The last change id is 0 or an id of the log.
LEMMA LastId ==
    ASSUME TypeOK
    PROVE  (IF Kept = {} THEN 0 ELSE Max(Kept)) \in 0..Len(log)
  <1>1. Len(log) \in Nat /\ DOMAIN log = 1..Len(log)
    BY DEF TypeOK, StoreOK
  <1> QED
    BY <1>1, KeptIds, BoundedMax

\* delete_changes finds the entry it turns into the truncation entry.
LEMMA FirstKept ==
    ASSUME TypeOK, Cardinality(Kept) > MaxHistory
    PROVE  Min({k \in Kept : Cardinality({l \in Kept : l > k}) <= MaxHistory})
               \in DOMAIN log
  <1> DEFINE K == {k \in Kept : Cardinality({l \in Kept : l > k}) <= MaxHistory}
  <1>1. Len(log) \in Nat /\ DOMAIN log = 1..Len(log) /\ MaxHistory \in Nat
    BY CacheAssumption DEF TypeOK, StoreOK
  <1>2. Kept # {}
    BY <1>1, FS_EmptySet
  <1>3. Kept \subseteq 0..Len(log)
    BY <1>1, KeptIds
  <1>4. PICK last \in Kept : \A k \in Kept : k <= last
    BY <1>1, <1>2, <1>3, BoundedMax
  <1>5. {l \in Kept : l > last} = {}
    <2>1. \A l \in Kept : l \in Int
      BY <1>1, <1>3
    <2>2. \A l \in Kept : ~ (l > last)
      BY <1>4, <2>1
    <2> QED
      BY <2>2, Zenon
  <1>6. last \in K
    BY <1>1, <1>4, <1>5, FS_EmptySet
  <1>7. K \subseteq Nat
    <2>1. \A k \in Kept : k \in Nat
      BY <1>1, <1>3
    <2> QED
      BY <2>1, Zenon
  <1> HIDE DEF K
  <1>8. Min(K) \in K
    BY <1>6, <1>7, LeastOne
  <1> QED
    BY <1>8, KeptIds DEF K

\* The changes since an id go to it or to a later one.
LEMMA ReadTo ==
    ASSUME TypeOK, NEW id \in 0..MaxChanges
    PROVE  /\ Max(Since(id) \cup {id}) \in 0..MaxChanges
           /\ Max(Since(id) \cup {id}) >= id
  <1>1. Len(log) \in Nat /\ DOMAIN log = 1..Len(log) /\ MaxChanges \in Nat
        /\ Len(log) <= MaxChanges
    BY CacheAssumption DEF TypeOK, StoreOK
  <1>2. Since(id) \cup {id} \subseteq 0..MaxChanges
    BY <1>1, KeptIds DEF Since
  <1>3. Max(Since(id) \cup {id}) \in Since(id) \cup {id}
    BY <1>1, <1>2, BoundedMax
  <1> QED
    BY <1>1, <1>2, <1>3 DEF Since

\* An entry whose lock exists is not NoEntry.
LEMMA EntryNamed ==
    ASSUME NEW e, e = NoEntry
    PROVE  e.id = 0 /\ e.lock = 0
  BY DEF NoEntry, Entry

\* The versions of the messages are change ids.
LEMMA VersionsType == TypeOK => Versions \in Items
  BY DEF TypeOK, StoreOK, Versions, Items

-----------------------------------------------------------------------------
(* Types                                                                   *)

\* A batch leaves the store and its log well formed.
LEMMA CommitType ==
    ASSUME TypeOK, NEW d \in Docs, NEW new, NEW entry \in LogEntries,
           new \in [thread : Threads \cup {NoThread}, change : 0..Len(log) + 1],
           Commit(d, new, entry)
    PROVE  TypeOK'
  <1> USE DEF Commit, store, history
  <1>1. Len(log) \in Nat /\ MaxChanges \in Nat /\ Len(log) < MaxChanges
    BY CacheAssumption DEF TypeOK, StoreOK
  <1>2. new \in [thread : Threads \cup {NoThread}, change : 0..MaxChanges]
    BY <1>1
  <1>3. message' \in [Docs -> [thread : Threads \cup {NoThread}, change : 0..MaxChanges]]
    BY <1>2 DEF TypeOK, StoreOK
  <1>4. log' \in Seq(LogEntries) /\ Len(log') = Len(log) + 1
    BY DEF TypeOK, StoreOK
  <1>5. Versions \in Items
    BY VersionsType
  <1>6. Versions' = [Versions EXCEPT ![d] = new.change]
    BY DEF TypeOK, StoreOK, Versions
  <1>7. Versions' \in Items
    BY <1>2, <1>5, <1>6 DEF Items
  <1>8. past' = Append(past, Versions')
    BY <1>6
  <1>9. past' \in Seq(Items) /\ Len(past') = Len(log') + 1
        /\ past'[Len(past')] = Versions'
    BY <1>4, <1>7, <1>8 DEF TypeOK, StoreOK
  <1>10. /\ trimmed' \in 0..Len(log')
         /\ Len(log') <= MaxChanges
    BY <1>1, <1>4 DEF TypeOK, StoreOK
  <1> QED
    BY <1>3, <1>4, <1>9, <1>10 DEF TypeOK, StoreOK, LockOK, EntryOK

\* Each of the changes to the messages of the account is such a batch.
LEMMA WriteType ==
    ASSUME TypeOK, Write
    PROVE  TypeOK'
  <1> USE DEF LogEntry, LogEntries, ItemIds
  <1>1. Len(log) \in Nat
    BY DEF TypeOK, StoreOK
  <1>2. \A d \in Docs : message[d].thread \in Threads \cup {NoThread}
    BY DEF TypeOK, StoreOK
  <1>3. ASSUME NEW d \in Docs, NEW t \in Threads, Insert(d, t) PROVE TypeOK'
    BY <1>1, <1>3, CommitType DEF Insert, Written
  <1>4. ASSUME NEW d \in Docs, NEW t \in Threads, Reassign(d, t) PROVE TypeOK'
    BY <1>1, <1>2, <1>4, CommitType DEF Reassign, Written
  <1>5. ASSUME NEW d \in Docs, Update(d) PROVE TypeOK'
    BY <1>1, <1>2, <1>5, CommitType DEF Update, Written
  <1>6. ASSUME NEW d \in Docs, Delete(d) PROVE TypeOK'
    BY <1>1, <1>2, <1>6, CommitType DEF Delete, Absent
  <1> QED
    BY <1>3, <1>4, <1>5, <1>6 DEF Write

\* The truncation of the log, in two steps, keeps its length.
LEMMA TruncateType ==
    ASSUME TypeOK, Truncate \/ MarkTruncated
    PROVE  TypeOK'
  <1>0. /\ log \in Seq(LogEntries) /\ Len(log) \in Nat
        /\ DOMAIN log = 1..Len(log) /\ \A k \in 1..Len(log) : log[k] \in LogEntries
    BY DEF TypeOK, StoreOK
  <1>1. CASE Truncate
    <2> DEFINE K == {k \in Kept : Cardinality({l \in Kept : l > k}) <= MaxHistory}
               first == Min(K)
    <2>1. /\ log' = [k \in DOMAIN log |-> IF k < first THEN Gone ELSE log[k]]
          /\ trimmed' = first
      BY <1>1 DEF Truncate
    <2>2. log' \in Seq(LogEntries) /\ Len(log') = Len(log)
      <3>1. log' \in [1..Len(log) -> LogEntries]
        BY <1>0, <2>1 DEF LogEntries
      <3> QED
        BY <1>0, <3>1
    <2>3. first \in 1..Len(log)
      BY FirstKept, <1>0, <1>1 DEF Truncate
    <2>4. Versions' = Versions
      BY <1>1 DEF Truncate, Versions
    <2>5. events' \in 0..MaxEvents
      BY <1>1, CacheAssumption DEF Truncate, Event, TypeOK, StoreOK
    <2>6. trimmed' \in 0..Len(log')
      BY <1>0, <2>1, <2>2, <2>3
    <2>7. UNCHANGED <<message, past, cache, guard, lock, pc, got, changed, since,
                      history>>
      BY <1>1 DEF Truncate
    <2> HIDE DEF first, K
    <2> QED
      BY <2>2, <2>4, <2>5, <2>6, <2>7 DEF TypeOK, StoreOK, LockOK, EntryOK, history
  <1>2. CASE MarkTruncated
    <2>1. log' \in Seq(LogEntries) /\ Len(log') = Len(log)
      <3>1. log' \in [1..Len(log) -> LogEntries]
        BY <1>0, <1>2 DEF MarkTruncated, LogEntries
      <3> QED
        BY <1>0, <3>1
    <2>2. Versions' = Versions
      BY <1>2 DEF MarkTruncated, Versions
    <2>3. UNCHANGED <<message, past, cache, guard, lock, pc, got, changed, since, events,
                      history>>
          /\ trimmed' = 0
      BY <1>2 DEF MarkTruncated
    <2> QED
      BY <1>0, <2>1, <2>2, <2>3 DEF TypeOK, StoreOK, LockOK, EntryOK, history
  <1> QED
    BY <1>1, <1>2

\* A step that leaves the store leaves it well formed.
LEMMA StoreKept ==
    ASSUME TypeOK, UNCHANGED <<store, trimmed>>
    PROVE  StoreOK'
  <1>1. UNCHANGED <<message, log, past, trimmed, Versions>>
    BY DEF store, Versions
  <1> QED
    BY <1>1 DEF TypeOK, StoreOK

\* A reader that has no permit goes from one step to another and leaves the locks.
LEMMA LocksKept ==
    ASSUME TypeOK, NEW r \in Readers, NEW s \in Steps,
           pc[r] \notin {"update", "revise", "publish"} \/
               (pc[r] # "publish" /\ s \in {"update", "revise", "publish"}),
           Goto(r, s), lock' = lock, guard' \in Readers \cup {NoReader}
    PROVE  LockOK'
  <1>1. pc' \in [Readers -> Steps]
    BY DEF Goto, TypeOK, LockOK
  <1>2. ASSUME NEW l \in DOMAIN lock, lock[l].permit # NoReader
        PROVE  pc'[lock[l].permit] \in {"update", "revise", "publish"}
    BY <1>2 DEF Goto, TypeOK, LockOK
  <1> QED
    BY <1>1, <1>2 DEF TypeOK, LockOK

\* The locks are records.
LEMMA LockRecords ==
    ASSUME TypeOK
    PROVE  /\ Len(lock) \in Nat /\ DOMAIN lock = 1..Len(lock)
           /\ lock \in [1..Len(lock) ->
                         [permit : Readers \cup {NoReader}, revision : 0..MaxChanges]]
           /\ \A l \in 1..Len(lock) :
                 /\ lock[l] \in [permit : Readers \cup {NoReader}, revision : 0..MaxChanges]
                 /\ lock[l].permit \in Readers \cup {NoReader}
  <1> DEFINE L == [permit : Readers \cup {NoReader}, revision : 0..MaxChanges]
  <1>1. lock \in Seq(L)
    BY DEF TypeOK, LockOK
  <1> HIDE DEF L
  <1>2. Len(lock) \in Nat /\ lock \in [1..Len(lock) -> L]
    BY <1>1
  <1>3. \A l \in 1..Len(lock) : lock[l] \in L
    BY <1>2
  <1> QED
    BY <1>2, <1>3 DEF L

\* One lock is changed.
LEMMA LockChanged ==
    ASSUME TypeOK, NEW l \in 1..Len(lock), NEW rec, lock' = [lock EXCEPT ![l] = rec],
           rec \in [permit : Readers \cup {NoReader}, revision : 0..MaxChanges]
    PROVE  /\ lock' \in Seq([permit : Readers \cup {NoReader}, revision : 0..MaxChanges])
           /\ Len(lock') = Len(lock) /\ DOMAIN lock' = DOMAIN lock
           /\ lock'[l] = rec
           /\ \A k \in DOMAIN lock \ {l} : lock'[k] = lock[k]
  <1> DEFINE L == [permit : Readers \cup {NoReader}, revision : 0..MaxChanges]
  <1>1. Len(lock) \in Nat /\ lock \in [1..Len(lock) -> L] /\ rec \in L
    BY LockRecords
  <1> HIDE DEF L
  <1>2. lock' \in [1..Len(lock) -> L] /\ lock' \in Seq(L)
    BY <1>1
  <1>3. Len(lock') = Len(lock)
    BY <1>1, <1>2
  <1> QED
    BY <1>1, <1>2, <1>3 DEF L

\* NoEntry is an entry without a lock.
LEMMA NoEntryType ==
    ASSUME TypeOK
    PROVE  /\ NoEntry \in [id : 0..MaxChanges, items : Items, lock : 0..Len(lock)]
           /\ NoEntry.lock = 0 /\ NoEntry.id = 0
  <1>1. MaxChanges \in Nat /\ Len(lock) \in Nat
    BY CacheAssumption DEF TypeOK, LockOK
  <1> QED
    BY <1>1 DEF NoEntry, Entry, Items

\* A reader works on an entry with a lock, or on none.
LEMMA EntryTaken ==
    ASSUME TypeOK, NEW r \in Readers, NEW s \in Steps, Goto(r, s),
           NEW e \in [id : 0..MaxChanges, items : Items, lock : 0..Len(lock)],
           got' = [got EXCEPT ![r] = e], s # "idle" => e.lock # 0,
           Len(lock') = Len(lock), cache' \in {cache, NoEntry}
    PROVE  EntryOK'
  <1>1. got' \in [Readers -> [id : 0..MaxChanges, items : Items, lock : 0..Len(lock')]]
    BY DEF TypeOK, EntryOK
  <1>2. \A q \in Readers : pc'[q] # "idle" => got'[q].lock # 0
    BY DEF Goto, TypeOK, EntryOK, LockOK
  <1> QED
    BY <1>1, <1>2 DEF TypeOK, EntryOK

\* A reader begins, reads or returns: the locks are as they were, or there is a
\* new one.
LEMMA ReaderType ==
    ASSUME TypeOK, NEW r \in Readers,
           Hit(r) \/ Miss(r) \/ Build(r) \/ Scan(r) \/ ReadChanges(r) \/ Return(r)
    PROVE  TypeOK'
  <1> USE DEF history, Begin
  <1>0. /\ Len(log) \in 0..MaxChanges /\ MaxChanges \in Nat /\ Len(lock) \in Nat
        /\ DOMAIN lock = 1..Len(lock)
        /\ got[r] \in [id : 0..MaxChanges, items : Items, lock : 0..Len(lock)]
        /\ pc[r] # "idle" => got[r].lock # 0
        /\ guard \in Readers \cup {NoReader}
    BY CacheAssumption DEF TypeOK, StoreOK, LockOK, EntryOK
  <1>1. CASE Hit(r)
    <2>1. cache \in [id : 0..MaxChanges, items : Items, lock : 0..Len(lock)]
          /\ cache.lock # 0
      BY <1>0, <1>1 DEF Hit, TypeOK, EntryOK
    <2>2. StoreOK'
      BY <1>1, StoreKept DEF Hit
    <2>3. LockOK'
      BY <1>0, <1>1, LocksKept DEF Hit, Steps
    <2>4. EntryOK'
      BY <1>1, <2>1, EntryTaken DEF Hit, Steps
    <2> QED
      BY <1>0, <1>1, <2>2, <2>3, <2>4 DEF Hit, TypeOK
  <1>2. CASE Miss(r)
    <2>1. /\ lock' \in Seq([permit : Readers \cup {NoReader}, revision : 0..MaxChanges])
          /\ Len(lock') = Len(lock) + 1
          /\ \A l \in 1..Len(lock) : lock'[l] = lock[l]
          /\ lock'[Len(lock) + 1].permit = NoReader
      BY <1>0, <1>2 DEF Miss, TypeOK, LockOK
    <2>2. [NoEntry EXCEPT !.lock = Len(lock) + 1] \in
              [id : 0..MaxChanges, items : Items, lock : 1..Len(lock) + 1]
      BY <1>0, NoEntryType
    <2>3. /\ got' \in [Readers ->
                 [id : 0..MaxChanges, items : Items, lock : 0..Len(lock')]]
          /\ \A s \in Readers : pc'[s] # "idle" => got'[s].lock # 0
      BY <1>0, <1>2, <2>1, <2>2 DEF Miss, TypeOK, EntryOK, LockOK, Goto
    <2>4. pc' \in [Readers -> Steps] /\ \A s \in Readers \ {r} : pc'[s] = pc[s]
      BY <1>2 DEF Miss, Goto, TypeOK, LockOK, Steps
    <2>5. ASSUME NEW l \in DOMAIN lock', lock'[l].permit # NoReader
          PROVE  pc'[lock'[l].permit] \in {"update", "revise", "publish"}
      <3>1. l \in 1..Len(lock) /\ lock'[l] = lock[l]
        BY <1>0, <2>1, <2>5
      <3>2. pc[lock[l].permit] \in {"update", "revise", "publish"}
        BY <1>0, <2>5, <3>1 DEF TypeOK, LockOK
      <3>4. lock[l] \in [permit : Readers \cup {NoReader}, revision : 0..MaxChanges]
        BY <3>1, LockRecords
      <3>5. lock[l].permit \in Readers
        BY <2>5, <3>1, <3>4
      <3>3. lock[l].permit # r
        BY <1>2, <3>2 DEF Miss
      <3> QED
        BY <2>4, <3>1, <3>2, <3>3, <3>5
    <2>6. LockOK'
      BY <1>2, <2>1, <2>4, <2>5 DEF Miss, LockOK
    <2>7. EntryOK'
      BY <1>2, <2>3 DEF Miss, EntryOK
    <2>8. StoreOK'
      BY <1>2, StoreKept DEF Miss
    <2> QED
      BY <1>0, <1>2, <2>6, <2>7, <2>8 DEF Miss, TypeOK
  <1>3. CASE Build(r)
    <2> DEFINE last == IF Kept = {} THEN 0 ELSE Max(Kept)
               e == [got[r] EXCEPT !.id = last]
    <2>1. last \in 0..MaxChanges
      BY <1>0, LastId
    <2>2. e \in [id : 0..MaxChanges, items : Items, lock : 0..Len(lock)]
          /\ e.lock = got[r].lock /\ got' = [got EXCEPT ![r] = e]
      BY <1>0, <1>3, <2>1 DEF Build
    <2> HIDE DEF e
    <2>3. EntryOK'
      BY <1>0, <1>3, <2>2, EntryTaken DEF Build, Steps
    <2>4. LockOK'
      BY <1>0, <1>3, LocksKept DEF Build, Steps
    <2>5. StoreOK'
      BY <1>3, StoreKept DEF Build
    <2> QED
      BY <1>3, <2>3, <2>4, <2>5 DEF Build, TypeOK
  <1>4. CASE Scan(r)
    <2> DEFINE e == [got[r] EXCEPT !.items = Versions]
    <2>1. e \in [id : 0..MaxChanges, items : Items, lock : 0..Len(lock)]
          /\ e.lock = got[r].lock /\ got' = [got EXCEPT ![r] = e]
      BY <1>0, <1>4, VersionsType DEF Scan
    <2> HIDE DEF e
    <2>2. ahead' \in BOOLEAN
      BY <1>4, Zenon DEF Scan, TypeOK
    <2>3. EntryOK'
      BY <1>0, <1>4, <2>1, EntryTaken DEF Scan, Steps
    <2>4. LockOK'
      BY <1>0, <1>4, LocksKept DEF Scan, Steps
    <2>5. StoreOK'
      BY <1>4, StoreKept DEF Scan
    <2> QED
      BY <1>4, <2>2, <2>3, <2>4, <2>5 DEF Scan, TypeOK
  <1>5. CASE ReadChanges(r)
    <2> DEFINE to == Max(Since(got[r].id) \cup {got[r].id})
    <2>1. to \in 0..MaxChanges
      BY <1>0, ReadTo
    <2>2. PICK s \in {"build", "return", "lock"} : Goto(r, s)
      BY <1>5, Zenon DEF ReadChanges
    <2>3. DOMAIN changed' = Readers /\ \A q \in Readers : changed'[q].to \in 0..MaxChanges
      <3>1. changed' = changed \/
              \E x, y : changed' = [changed EXCEPT ![r] = [docs |-> x, read |-> y, to |-> to]]
        BY <1>5, Zenon DEF ReadChanges
      <3> HIDE DEF to
      <3>2. \A q \in Readers : changed'[q] = changed[q] \/ changed'[q].to = to
        BY <3>1 DEF TypeOK
      <3> QED
        BY <2>1, <3>1, <3>2 DEF TypeOK
    <2>4. skipped' \in BOOLEAN
      BY <1>5, Zenon DEF ReadChanges, TypeOK
    <2>5. got' = [got EXCEPT ![r] = got[r]] /\ lock' = lock /\ cache' = cache
          /\ guard' = guard /\ pc[r] = "changes"
      BY <1>5 DEF ReadChanges, TypeOK, EntryOK
    <2>6. EntryOK'
      BY <1>0, <2>2, <2>5, EntryTaken DEF Steps
    <2>7. LockOK'
      BY <1>0, <2>2, <2>5, LocksKept DEF Steps
    <2>8. StoreOK'
      BY <1>5, StoreKept DEF ReadChanges
    <2> QED
      BY <1>5, <2>3, <2>4, <2>6, <2>7, <2>8 DEF ReadChanges, TypeOK
  <1>6. CASE Return(r)
    <2>1. DOMAIN changed' = Readers /\ \A s \in Readers : changed'[s].to \in 0..MaxChanges
      BY <1>0, <1>6 DEF Return, TypeOK, NoChanges
    <2>2. EntryOK'
      BY <1>6, NoEntryType, EntryTaken DEF Return, Steps
    <2>3. LockOK'
      BY <1>0, <1>6, LocksKept DEF Return, Steps
    <2>4. StoreOK'
      BY <1>6, StoreKept DEF Return
    <2> QED
      BY <1>0, <1>6, <2>1, <2>2, <2>3, <2>4 DEF Return, TypeOK
  <1> QED
    BY <1>1, <1>2, <1>3, <1>4, <1>5, <1>6

\* What Acquire goes on with: the reader's entry or the cached one.
LEMMA PeekedType ==
    ASSUME TypeOK, NEW r \in Readers, pc[r] = "lock"
    PROVE  /\ Peeked(r) \in [id : 0..MaxChanges, items : Items, lock : 0..Len(lock)]
           /\ Peeked(r).lock # 0
           /\ got[r] \in [id : 0..MaxChanges, items : Items, lock : 0..Len(lock)]
           /\ got[r].lock # 0
  <1>1. Len(lock) \in Nat
    BY LockRecords
  <1>2. got[r] \in [id : 0..MaxChanges, items : Items, lock : 0..Len(lock)]
        /\ got[r].lock # 0
    BY DEF TypeOK, EntryOK
  <1>3. cache # NoEntry => /\ cache \in [id : 0..MaxChanges, items : Items, lock : 0..Len(lock)]
                           /\ cache.lock # 0
    BY <1>1 DEF TypeOK, EntryOK
  <1> QED
    BY <1>2, <1>3 DEF Peeked

\* A reader that takes the permit of its lock.
LEMMA AcquireType ==
    ASSUME TypeOK, NEW r \in Readers, Acquire(r)
    PROVE  TypeOK'
  <1> DEFINE l == got[r].lock
             base == IF lock[l].revision = got[r].id THEN got[r] ELSE Peeked(r)
  <1>1. /\ pc[r] = "lock" /\ lock[l].permit = NoReader
        /\ got' = [got EXCEPT ![r] = base]
        /\ UNCHANGED <<store, trimmed, cache, guard, changed, since, events, unlocked>>
    BY DEF Acquire, history
  <1>2. \/ Goto(r, "return") /\ UNCHANGED <<lock, history>>
        \/ lock' = [lock EXCEPT ![l].permit = r] /\ Goto(r, "update")
    BY DEF Acquire
  <1>3. base \in [id : 0..MaxChanges, items : Items, lock : 0..Len(lock)] /\ base.lock # 0
    BY <1>1, PeekedType
  <1>4. l \in 1..Len(lock)
    BY <1>1, PeekedType, LockRecords
  <1>5. ahead' \in BOOLEAN /\ skipped' \in BOOLEAN
    BY Zenon DEF Acquire, TypeOK, history
  <1> HIDE DEF base, l
  <1>6. Len(lock') = Len(lock)
    BY <1>2, LockRecords
  <1>7. EntryOK'
    BY <1>1, <1>2, <1>3, <1>6, EntryTaken DEF Steps
  <1>8. StoreOK'
    BY <1>1, StoreKept
  <1>9. LockOK'
    <2>1. CASE Goto(r, "return") /\ lock' = lock
      BY <1>1, <2>1, LocksKept DEF TypeOK, LockOK, Steps
    <2>2. CASE lock' = [lock EXCEPT ![l].permit = r] /\ Goto(r, "update")
      <3>1. /\ lock' \in Seq([permit : Readers \cup {NoReader}, revision : 0..MaxChanges])
            /\ DOMAIN lock' = DOMAIN lock /\ lock'[l].permit = r
            /\ \A k \in DOMAIN lock \ {l} : lock'[k] = lock[k]
        <4>1. lock' = [lock EXCEPT ![l] = [lock[l] EXCEPT !.permit = r]]
          BY <2>2
        <4>2. [lock[l] EXCEPT !.permit = r] \in
                  [permit : Readers \cup {NoReader}, revision : 0..MaxChanges]
          BY <1>4, LockRecords
        <4>3. [lock[l] EXCEPT !.permit = r].permit = r
          BY <1>4, LockRecords
        <4> QED
          BY <1>4, <4>1, <4>2, <4>3, LockChanged
      <3>2. pc' \in [Readers -> Steps] /\ pc'[r] = "update"
            /\ \A q \in Readers \ {r} : pc'[q] = pc[q]
        BY <2>2 DEF Goto, TypeOK, LockOK, Steps
      <3>3. ASSUME NEW k \in DOMAIN lock', lock'[k].permit # NoReader
            PROVE  pc'[lock'[k].permit] \in {"update", "revise", "publish"}
        <4>1. CASE k = l
          BY <3>1, <3>2, <4>1
        <4>2. CASE k # l
          <5>1. k \in 1..Len(lock) /\ lock'[k] = lock[k]
            BY <3>1, <4>2, LockRecords
          <5>2. pc[lock[k].permit] \in {"update", "revise", "publish"}
            BY <3>3, <5>1, LockRecords DEF TypeOK, LockOK
          <5>3. lock[k].permit \in Readers
            BY <3>3, <5>1, LockRecords
          <5>4. lock[k].permit # r
            BY <1>1, <5>2
          <5> QED
            BY <3>2, <5>1, <5>2, <5>3, <5>4
        <4> QED
          BY <4>1, <4>2
      <3> QED
        BY <1>1, <3>1, <3>2, <3>3 DEF TypeOK, LockOK
    <2> QED
      BY <1>2, <2>1, <2>2
  <1> QED
    BY <1>1, <1>5, <1>7, <1>8, <1>9 DEF TypeOK

\* What Released leaves: r has no permit, and the other locks are as they were.
LEMMA ReleasedLocks ==
    ASSUME TypeOK, NEW r \in Readers, Released(r)
    PROVE  /\ lock' \in Seq([permit : Readers \cup {NoReader}, revision : 0..MaxChanges])
           /\ Len(lock') = Len(lock) /\ DOMAIN lock' = DOMAIN lock
           /\ \A k \in DOMAIN lock :
                 /\ lock'[k].revision = lock[k].revision
                 /\ lock'[k].permit = IF lock[k].permit = r THEN NoReader ELSE lock[k].permit
           /\ guard' \in Readers \cup {NoReader}
  <1>1. lock' = [l \in 1..Len(lock) |->
                  IF lock[l].permit = r THEN [lock[l] EXCEPT !.permit = NoReader]
                  ELSE lock[l]]
    BY LockRecords DEF Released
  <1>2. lock' \in [1..Len(lock) -> [permit : Readers \cup {NoReader}, revision : 0..MaxChanges]]
    BY <1>1, LockRecords
  <1>3. ASSUME NEW k \in DOMAIN lock
        PROVE  /\ lock'[k].revision = lock[k].revision
               /\ lock'[k].permit = IF lock[k].permit = r THEN NoReader ELSE lock[k].permit
    BY <1>1, LockRecords
  <1> QED
    BY <1>2, <1>3, LockRecords DEF Released, TypeOK, LockOK

\* A reader that gives its permit back goes anywhere.
LEMMA ReleasedType ==
    ASSUME TypeOK, NEW r \in Readers, NEW s \in Steps, Released(r), Goto(r, s)
    PROVE  LockOK'
  <1>1. pc' \in [Readers -> Steps] /\ \A q \in Readers \ {r} : pc'[q] = pc[q]
    BY DEF Goto, TypeOK, LockOK
  <1>2. ASSUME NEW k \in DOMAIN lock', lock'[k].permit # NoReader
        PROVE  pc'[lock'[k].permit] \in {"update", "revise", "publish"}
    <2>1. k \in 1..Len(lock) /\ lock[k].permit # r /\ lock'[k].permit = lock[k].permit
      BY <1>2, ReleasedLocks, LockRecords
    <2>2. lock[k].permit \in Readers
      BY <1>2, <2>1, LockRecords
    <2>3. pc[lock[k].permit] \in {"update", "revise", "publish"}
      BY <1>2, <2>1, LockRecords DEF TypeOK, LockOK
    <2> QED
      BY <1>1, <2>1, <2>2, <2>3
  <1> QED
    BY <1>1, <1>2, ReleasedLocks DEF LockOK

\* The rest of a reader's call, which has the permit or releases it.
LEMMA HolderType ==
    ASSUME TypeOK, NEW r \in Readers,
           UpdateItems(r) \/ Revise(r) \/ Publish(r) \/ Fail(r)
    PROVE  TypeOK'
  <1> USE DEF history
  <1>0. /\ Len(log) \in 0..MaxChanges /\ MaxChanges \in Nat
        /\ got[r] \in [id : 0..MaxChanges, items : Items, lock : 0..Len(lock)]
        /\ pc[r] # "idle" => got[r].lock \in 1..Len(lock) /\ got[r].lock # 0
        /\ got[r].id \in 0..MaxChanges
        /\ guard \in Readers \cup {NoReader}
    BY CacheAssumption, LockRecords DEF TypeOK, StoreOK, LockOK, EntryOK
  <1>1. CASE UpdateItems(r)
    <2> DEFINE items == [d \in Docs |->
                   IF d \in changed[r].read THEN message[d].change
                   ELSE IF d \in changed[r].docs THEN 0 ELSE got[r].items[d]]
               e == [got[r] EXCEPT !.id = changed[r].to, !.items = items]
    <2>1. items \in Items
      BY <1>0 DEF Items, TypeOK, StoreOK
    <2>2. got' = [got EXCEPT ![r] = e]
      BY <1>1 DEF UpdateItems
    <2> HIDE DEF items
    <2>3. changed[r].to \in 0..MaxChanges
      BY DEF TypeOK
    <2>4. e \in [id : 0..MaxChanges, items : Items, lock : 0..Len(lock)]
          /\ e.lock = got[r].lock
      BY <1>0, <2>1, <2>3
    <2> HIDE DEF e
    <2>5. EntryOK'
      BY <1>0, <1>1, <2>2, <2>4, EntryTaken DEF UpdateItems, Steps
    <2>6. LockOK'
      BY <1>0, <1>1, LocksKept DEF UpdateItems, Steps
    <2>7. StoreOK'
      BY <1>1, StoreKept DEF UpdateItems
    <2> QED
      BY <1>1, <2>5, <2>6, <2>7 DEF UpdateItems, TypeOK
  <1>2. CASE Revise(r)
    <2>1. /\ lock' \in Seq([permit : Readers \cup {NoReader}, revision : 0..MaxChanges])
          /\ Len(lock') = Len(lock) /\ DOMAIN lock' = DOMAIN lock
          /\ \A k \in DOMAIN lock : lock'[k].permit = lock[k].permit
      <3> DEFINE l == got[r].lock
                 rec == [lock[l] EXCEPT !.revision = got[r].id]
      <3>1. lock' = [lock EXCEPT ![l] = rec] /\ l \in 1..Len(lock)
        BY <1>0, <1>2 DEF Revise
      <3>2. rec \in [permit : Readers \cup {NoReader}, revision : 0..MaxChanges]
            /\ rec.permit = lock[l].permit
        BY <1>0, <3>1, LockRecords
      <3> HIDE DEF l, rec
      <3> QED
        BY <3>1, <3>2, LockChanged
    <2>2. pc' \in [Readers -> Steps] /\ pc'[r] = "publish"
          /\ \A q \in Readers \ {r} : pc'[q] = pc[q]
      BY <1>2 DEF Revise, Goto, TypeOK, LockOK, Steps
    <2>3. \A k \in DOMAIN lock' : lock'[k].permit # NoReader =>
              pc'[lock'[k].permit] \in {"update", "revise", "publish"}
      BY <2>1, <2>2, LockRecords DEF TypeOK, LockOK
    <2>4. LockOK'
      BY <1>0, <1>2, <2>1, <2>2, <2>3 DEF Revise, LockOK
    <2>5. got' = [got EXCEPT ![r] = got[r]]
      BY <1>2 DEF Revise, TypeOK, EntryOK
    <2>6. EntryOK'
      BY <1>0, <1>2, <2>1, <2>5, EntryTaken DEF Revise, Steps
    <2>7. StoreOK'
      BY <1>2, StoreKept DEF Revise
    <2>8. unlocked' \in BOOLEAN
      BY <1>2, Zenon DEF Revise, TypeOK, Unpermitted
    <2> QED
      BY <1>2, <2>4, <2>6, <2>7, <2>8 DEF Revise, TypeOK
  <1>3. CASE Publish(r)
    <2>1. LockOK'
      BY <1>3, ReleasedType DEF Publish, Steps
    <2>2. StoreOK'
      BY <1>3, StoreKept DEF Publish
    <2>3. cache' \in [id : 0..MaxChanges, items : Items, lock : 1..Len(lock')]
      BY <1>0, <1>3, ReleasedLocks DEF Publish
    <2>4. /\ got' \in [Readers -> [id : 0..MaxChanges, items : Items, lock : 0..Len(lock')]]
          /\ \A q \in Readers : pc'[q] # "idle" => got'[q].lock # 0
      BY <1>0, <1>3, ReleasedLocks DEF Publish, Goto, TypeOK, EntryOK, LockOK
    <2>5. unlocked' \in BOOLEAN
      BY <1>3, Zenon DEF Publish, TypeOK, Unpermitted
    <2> QED
      BY <1>3, <2>1, <2>2, <2>3, <2>4, <2>5 DEF Publish, TypeOK, EntryOK
  <1>4. CASE Fail(r)
    <2>1. LockOK'
      BY <1>4, ReleasedType DEF Fail, Steps
    <2>2. StoreOK'
      BY <1>4, StoreKept DEF Fail
    <2>3. EntryOK'
      BY <1>4, ReleasedLocks, NoEntryType, EntryTaken DEF Fail, Steps
    <2>4. DOMAIN changed' = Readers /\ \A s \in Readers : changed'[s].to \in 0..MaxChanges
      BY <1>0, <1>4 DEF Fail, TypeOK, NoChanges
    <2>5. events' \in 0..MaxEvents
      BY <1>4, CacheAssumption DEF Fail, Event, TypeOK
    <2> QED
      BY <1>0, <1>4, <2>1, <2>2, <2>3, <2>4, <2>5 DEF Fail, TypeOK
  <1> QED
    BY <1>1, <1>2, <1>3, <1>4

\* The eviction of the entry.
LEMMA EvictType ==
    ASSUME TypeOK, Evict
    PROVE  TypeOK'
  <1>1. events' \in 0..MaxEvents
    BY CacheAssumption DEF Evict, Event, TypeOK
  <1>2. NoEntry' = NoEntry
    OBVIOUS
  <1>3. EntryOK' /\ LockOK'
    BY <1>2 DEF Evict, TypeOK, EntryOK, LockOK
  <1>4. StoreOK'
    BY StoreKept DEF Evict
  <1> QED
    BY <1>1, <1>3, <1>4 DEF Evict, TypeOK, history

\* The state is well formed at the start and after every step.
LEMMA CacheTyped ==
    /\ Init => TypeOK
    /\ TypeOK /\ [Next]_vars => TypeOK'
  <1>1. ASSUME Init PROVE TypeOK
    <2>1. MaxChanges \in Nat /\ MaxEvents \in Nat
      BY CacheAssumption
    <2>2. Versions \in Items
      BY <1>1, <2>1 DEF Init, Versions, Items, Absent
    <2>3. StoreOK
      BY <1>1, <2>1, <2>2 DEF Init, StoreOK, Absent
    <2>4. LockOK
      BY <1>1 DEF Init, LockOK, Steps
    <2>5. NoEntry \in [id : 0..MaxChanges, items : Items, lock : 0..Len(lock)]
      BY <1>1, <2>1 DEF Init, NoEntry, Entry, Items
    <2>6. EntryOK
      BY <1>1, <2>5 DEF Init, EntryOK
    <2>7. /\ DOMAIN changed = Readers /\ \A r \in Readers : changed[r].to \in 0..MaxChanges
          /\ since \in [Readers -> 0..MaxChanges] /\ events \in 0..MaxEvents
      BY <1>1, <2>1 DEF Init, NoChanges
    <2> QED
      BY <1>1, <2>3, <2>4, <2>6, <2>7 DEF Init, TypeOK
  <1>2. ASSUME TypeOK, [Next]_vars PROVE TypeOK'
    <2>1. CASE UNCHANGED vars
      BY <1>2, <2>1 DEF vars, store, history, TypeOK, StoreOK, LockOK, EntryOK, Versions
    <2>2. ASSUME NEW r \in Readers, Read(r) PROVE TypeOK'
      BY <1>2, <2>2, ReaderType, AcquireType, HolderType DEF Read
    <2> QED
      BY <1>2, <2>1, <2>2, WriteType, TruncateType, EvictType DEF Next
  <1> QED
    BY <1>1, <1>2

\* TypeOK holds for any number of readers and documents: the permit of a lock is
\* that of a reader who is on the way to publish, so that acquire never waits for
\* a reader that has returned or failed.
THEOREM CacheTypeOK == Spec => []TypeOK
  BY CacheTyped, PTL DEF Spec

-----------------------------------------------------------------------------
(* The cached entry goes forward                                           *)

\* What the store does is nothing to the readers.
LEMMA StoreStep ==
    ASSUME Write \/ Truncate \/ MarkTruncated
    PROVE  UNCHANGED <<cache, guard, lock, pc, got, changed, since, history>>
  BY DEF Write, Insert, Update, Reassign, Delete, Commit, Truncate, MarkTruncated

\* What one reader does leaves the others where they are.
LEMMA OthersKept ==
    ASSUME TypeOK, NEW r \in Readers, Read(r)
    PROVE  \A q \in Readers \ {r} :
              pc'[q] = pc[q] /\ got'[q] = got[q] /\ changed'[q] = changed[q]
  <1>1. \A q \in Readers \ {r} : pc'[q] = pc[q]
    BY DEF Read, Hit, Miss, Build, Scan, ReadChanges, Acquire, UpdateItems, Revise,
           Publish, Return, Fail, Goto, TypeOK, LockOK
  <1>2. \A q \in Readers \ {r} : got'[q] = got[q]
    <2>1. got' = got \/ \E e : got' = [got EXCEPT ![r] = e]
      BY Zenon DEF Read, Hit, Miss, Build, Scan, ReadChanges, Acquire, UpdateItems, Revise,
             Publish, Return, Fail
    <2> QED
      BY <2>1 DEF TypeOK, EntryOK
  <1>3. \A q \in Readers \ {r} : changed'[q] = changed[q]
    <2>1. changed' = changed \/ \E e : changed' = [changed EXCEPT ![r] = e]
      BY Zenon DEF Read, Hit, Miss, Build, Scan, ReadChanges, Acquire, UpdateItems, Revise,
             Publish, Return, Fail
    <2> QED
      BY <2>1 DEF TypeOK
  <1> QED
    BY <1>1, <1>2, <1>3

\* The locks after Acquire and after Revise.
LEMMA AcquireLocks ==
    ASSUME TypeOK, NEW r \in Readers, Acquire(r)
    PROVE  /\ got[r].lock \in 1..Len(lock) /\ DOMAIN lock' = DOMAIN lock
           /\ \/ lock' = lock /\ pc'[r] = "return"
              \/ /\ pc'[r] = "update" /\ lock'[got[r].lock].permit = r
                 /\ lock'[got[r].lock].revision = lock[got[r].lock].revision
                 /\ \A k \in DOMAIN lock \ {got[r].lock} : lock'[k] = lock[k]
  <1>1. got[r].lock \in 1..Len(lock)
    BY PeekedType, LockRecords DEF Acquire
  <1>2. CASE lock' = lock /\ Goto(r, "return")
    BY <1>1, <1>2 DEF Goto, TypeOK, LockOK
  <1>3. CASE lock' = [lock EXCEPT ![got[r].lock].permit = r] /\ Goto(r, "update")
    <2> DEFINE rec == [lock[got[r].lock] EXCEPT !.permit = r]
    <2>1. /\ rec \in [permit : Readers \cup {NoReader}, revision : 0..MaxChanges]
          /\ rec.permit = r /\ rec.revision = lock[got[r].lock].revision
          /\ lock' = [lock EXCEPT ![got[r].lock] = rec]
      BY <1>1, <1>3, LockRecords
    <2> HIDE DEF rec
    <2> QED
      BY <1>1, <1>3, <2>1, LockChanged DEF Goto, TypeOK, LockOK
  <1> QED
    BY <1>2, <1>3 DEF Acquire

\* A reader that gives up its permit changes the revision of its own lock only.
LEMMA ReviseLocks ==
    ASSUME TypeOK, NEW r \in Readers, Revise(r)
    PROVE  /\ got[r].lock \in 1..Len(lock) /\ DOMAIN lock' = DOMAIN lock
           /\ lock'[got[r].lock].permit = lock[got[r].lock].permit
           /\ lock'[got[r].lock].revision = got[r].id
           /\ \A k \in DOMAIN lock \ {got[r].lock} : lock'[k] = lock[k]
  <1> DEFINE rec == [lock[got[r].lock] EXCEPT !.revision = got[r].id]
  <1>1. got[r].lock \in 1..Len(lock) /\ got[r].id \in 0..MaxChanges
    <2>1. got[r] \in [id : 0..MaxChanges, items : Items, lock : 0..Len(lock)]
          /\ got[r].lock # 0
      BY DEF Revise, TypeOK, EntryOK
    <2> QED
      BY <2>1, LockRecords
  <1>2. /\ rec \in [permit : Readers \cup {NoReader}, revision : 0..MaxChanges]
        /\ rec.permit = lock[got[r].lock].permit /\ rec.revision = got[r].id
        /\ lock' = [lock EXCEPT ![got[r].lock] = rec]
    BY <1>1, LockRecords DEF Revise
  <1> HIDE DEF rec
  <1> QED
    BY <1>1, <1>2, LockChanged

\* A step of a reader, but for the one that takes the guard: the locks named by
\* its entry and by the cached one were named by them before, and the permits it
\* changes are its own.
LEMMA ReaderEffects ==
    ASSUME TypeOK, NEW r \in Readers, Read(r), ~Miss(r)
    PROVE  /\ got'[r].lock \in {0, got[r].lock, cache.lock}
           /\ cache' = cache \/ cache' = got[r]
           /\ DOMAIN lock' = DOMAIN lock
           /\ \A l \in DOMAIN lock :
                 \/ lock'[l].permit \in {lock[l].permit, NoReader}
                 \/ l = got[r].lock /\ lock'[l].permit = r /\ lock[l].permit = NoReader
           /\ guard' = guard \/ (guard = r /\ guard' = NoReader)
  <1> USE DEF store, history
  <1>0. got[r] \in [id : 0..MaxChanges, items : Items, lock : 0..Len(lock)]
        /\ NoEntry.lock = 0
    BY NoEntryType DEF TypeOK, EntryOK
  <1>1. CASE Hit(r)
    BY <1>1 DEF Hit, TypeOK, EntryOK
  <1>2. CASE Build(r)
    BY <1>0, <1>2 DEF Build, TypeOK, EntryOK
  <1>3. CASE Scan(r)
    BY <1>0, <1>3 DEF Scan, TypeOK, EntryOK
  <1>4. CASE ReadChanges(r)
    BY <1>4 DEF ReadChanges
  <1>5. CASE Acquire(r)
    <2>1. got'[r] \in {got[r], Peeked(r)} /\ lock[got[r].lock].permit = NoReader
          /\ cache' = cache /\ guard' = guard
      BY <1>5 DEF Acquire, TypeOK, EntryOK
    <2> QED
      BY <1>5, <2>1, AcquireLocks DEF Peeked
  <1>6. CASE UpdateItems(r)
    BY <1>0, <1>6 DEF UpdateItems, TypeOK, EntryOK
  <1>7. CASE Revise(r)
    BY <1>7, ReviseLocks DEF Revise
  <1>8. CASE Publish(r)
    BY <1>8, ReleasedLocks DEF Publish, Released
  <1>9. CASE Return(r)
    BY <1>0, <1>9 DEF Return, TypeOK, EntryOK
  <1>10. CASE Fail(r)
    BY <1>0, <1>10, ReleasedLocks DEF Fail, Released, TypeOK, EntryOK
  <1> QED
    BY <1>1, <1>2, <1>3, <1>4, <1>5, <1>6, <1>7, <1>8, <1>9, <1>10 DEF Read

\* The locks after Miss: a new one, which no entry names but the reader's.
LEMMA MissLocks ==
    ASSUME TypeOK, NEW r \in Readers, Miss(r)
    PROVE  /\ got'[r].lock = Len(lock) + 1 /\ Len(lock') = Len(lock) + 1
           /\ DOMAIN lock' = 1..Len(lock) + 1
           /\ lock'[Len(lock) + 1].permit = NoReader
           /\ \A l \in 1..Len(lock) : lock'[l] = lock[l]
           /\ guard = NoReader /\ guard' = r /\ cache = NoEntry /\ cache' = cache
           /\ pc[r] = "idle" /\ pc'[r] = "build"
  <1>1. /\ got'[r].lock = Len(lock) + 1 /\ pc'[r] = "build"
    BY DEF Miss, Goto, NoEntry, Entry, TypeOK, EntryOK, LockOK
  <1>2. lock' = Append(lock, [permit |-> NoReader, revision |-> 0])
    BY DEF Miss
  <1> DEFINE L == [permit : Readers \cup {NoReader}, revision : 0..MaxChanges]
  <1>3. lock \in Seq(L)
    BY DEF TypeOK, LockOK
  <1>4. [permit |-> NoReader, revision |-> 0] \in L
    BY CacheAssumption
  <1> HIDE DEF L
  <1>5. /\ Len(lock') = Len(lock) + 1 /\ DOMAIN lock' = 1..Len(lock) + 1
        /\ lock'[Len(lock) + 1] = [permit |-> NoReader, revision |-> 0]
        /\ \A l \in 1..Len(lock) : lock'[l] = lock[l]
    BY <1>2, <1>3, <1>4
  <1> QED
    BY <1>1, <1>5 DEF Miss, Begin

\* The guard's reader stays alone with its lock.
LEMMA StepGuardAlone ==
    ASSUME TypeOK, GuardAlone, [Next]_vars
    PROVE  GuardAlone'
  <1>1. CASE UNCHANGED vars \/ Write \/ Truncate \/ MarkTruncated
    BY <1>1, StoreStep DEF vars, GuardAlone, history
  <1>2. CASE Evict
    <2>1. guard # NoReader => got[guard].lock # 0
      BY DEF GuardAlone, TypeOK, EntryOK, LockOK
    <2>2. cache'.lock = 0
      BY <1>2, NoEntryType DEF Evict
    <2> QED
      BY <1>2, <2>1, <2>2 DEF Evict, GuardAlone
  <1>3. ASSUME NEW r \in Readers, Miss(r) PROVE GuardAlone'
    <2>1. Len(lock) \in Nat /\ cache.lock = 0
      BY <1>3, LockRecords, MissLocks, NoEntryType
    <2>2. \A q \in Readers : got[q].lock \in 0..Len(lock)
      BY DEF TypeOK, EntryOK
    <2>3. Read(r)
      BY <1>3 DEF Read
    <2> QED
      BY <1>3, <2>1, <2>2, <2>3, MissLocks, OthersKept DEF GuardAlone
  <1>4. ASSUME NEW r \in Readers, Read(r), ~Miss(r), guard' # NoReader
        PROVE  GuardAlone'
    <2>1. guard' = guard /\ guard \in Readers /\ guard # NoReader
      BY <1>4, ReaderEffects DEF TypeOK, LockOK
    <2>2. got[guard].lock \in DOMAIN lock /\ got[guard].lock # 0
      <3>1. got[guard] \in [id : 0..MaxChanges, items : Items, lock : 0..Len(lock)]
            /\ got[guard].lock # 0
        BY <2>1 DEF GuardAlone, TypeOK, EntryOK
      <3> QED
        BY <3>1, LockRecords
    <2>3. CASE r = guard
      <3>1. Build(r) \/ Scan(r) \/ Revise(r) \/ Publish(r) \/ Fail(r)
        BY <1>4, <2>1, <2>3 DEF Read, GuardAlone, Hit, Begin, ReadChanges, Acquire,
                                UpdateItems, Return
      <3>2. Build(r) \/ Scan(r) \/ Revise(r)
        BY <1>4, <2>1, <2>3, <3>1 DEF Publish, Fail, Released
      <3>3. got'[r].lock = got[r].lock /\ cache' = cache
        BY <3>2 DEF Build, Scan, Revise, TypeOK, EntryOK
      <3>4. pc'[r] \in {"build", "scan", "revise", "publish"}
        BY <3>2 DEF Build, Scan, Revise, Goto, TypeOK, LockOK
      <3>5. lock'[got[r].lock].permit = NoReader
        BY <2>1, <2>2, <2>3, <3>2, ReviseLocks DEF Build, Scan, GuardAlone
      <3> QED
        BY <1>4, <2>1, <2>3, <3>3, <3>4, <3>5, OthersKept DEF GuardAlone
    <2>4. CASE r # guard
      <3>1. pc'[guard] = pc[guard] /\ got'[guard] = got[guard]
        BY <1>4, <2>1, <2>4, OthersKept
      <3>2. got[r].lock # got[guard].lock
        BY <1>4, <2>1, <2>4 DEF GuardAlone
      <3>3. lock'[got[guard].lock].permit = NoReader
        BY <1>4, <2>1, <2>2, <3>2, ReaderEffects DEF GuardAlone
      <3>4. cache'.lock # got[guard].lock /\ got'[r].lock # got[guard].lock
        BY <1>4, <2>1, <2>2, <3>2, ReaderEffects DEF GuardAlone
      <3> QED
        BY <1>4, <2>1, <2>4, <3>1, <3>3, <3>4, OthersKept DEF GuardAlone
    <2> QED
      BY <2>3, <2>4
  <1>5. ASSUME NEW r \in Readers, Read(r) PROVE GuardAlone'
    BY <1>3, <1>4, <1>5 DEF GuardAlone
  <1> QED
    BY <1>1, <1>2, <1>5 DEF Next

\* The changes a reader is about to apply were read since its entry.
LEMMA StepReadsAhead ==
    ASSUME TypeOK, ReadsAhead, [Next]_vars
    PROVE  ReadsAhead'
  <1>1. CASE UNCHANGED vars \/ Write \/ Truncate \/ MarkTruncated \/ Evict
    BY <1>1, StoreStep DEF vars, ReadsAhead, history, Evict
  <1>2. ASSUME NEW r \in Readers, Read(r) PROVE ReadsAhead'
    <2>1. ASSUME pc'[r] = "lock" PROVE changed'[r].to >= got'[r].id
      <3>1. ReadChanges(r)
        BY <1>2, <2>1 DEF Read, Hit, Miss, Build, Scan, Acquire, UpdateItems, Revise,
               Publish, Return, Fail, Goto, TypeOK, LockOK
      <3> DEFINE to == Max(Since(got[r].id) \cup {got[r].id})
      <3>2. got[r].id \in 0..MaxChanges
        BY DEF TypeOK, EntryOK
      <3>3. to >= got[r].id
        BY <3>2, ReadTo
      <3>4. \E x, y : changed' = [changed EXCEPT ![r] = [docs |-> x, read |-> y, to |-> to]]
        <4>1. ~ Goto(r, "build")
          BY <2>1 DEF Goto, TypeOK, LockOK
        <4> QED
          BY <3>1, <4>1, Zenon DEF ReadChanges
      <3> HIDE DEF to
      <3>5. changed'[r].to = to
        BY <3>4 DEF TypeOK
      <3> QED
        BY <3>1, <3>3, <3>5 DEF ReadChanges
    <2> QED
      BY <1>2, <2>1, OthersKept DEF ReadsAhead
  <1> QED
    BY <1>1, <1>2 DEF Next

\* An entry written without its permit is never forgotten.
LEMMA UnlockedGrows ==
    ASSUME TypeOK, [Next]_vars, unlocked
    PROVE  unlocked'
  <1>1. CASE UNCHANGED vars \/ Write \/ Truncate \/ MarkTruncated \/ Evict
    BY <1>1, StoreStep DEF vars, history, Evict
  <1>2. ASSUME NEW r \in Readers, Read(r) PROVE unlocked'
    BY <1>2, Zenon DEF Read, Hit, Miss, Build, Scan, ReadChanges, Acquire, UpdateItems,
           Revise, Publish, Return, Fail, history
  <1> QED
    BY <1>1, <1>2 DEF Next

\* While entries are written with their permits, a reader about to publish keeps
\* the permit, and nobody else sets the revision of its lock.
LEMMA StepRevised ==
    ASSUME TypeOK, GuardAlone, Revised, NEW r \in Readers, Read(r), ~unlocked'
    PROVE  Revised'
  <1>0. \A q \in Readers : pc[q] = "publish" =>
            got[q].lock \in DOMAIN lock
    <2>1. \A q \in Readers : got[q] \in [id : 0..MaxChanges, items : Items, lock : 0..Len(lock)]
      BY DEF TypeOK, EntryOK
    <2> QED
      BY <2>1, LockRecords DEF TypeOK, EntryOK
  <1>1. ASSUME pc'[r] = "publish"
        PROVE  ~Unpermitted(r)' /\ lock'[got'[r].lock].revision = got'[r].id
    <2>1. Revise(r)
      BY <1>1 DEF Read, Hit, Miss, Build, Scan, ReadChanges, Acquire, UpdateItems,
             Publish, Return, Fail, Goto, TypeOK, LockOK
    <2>2. ~Unpermitted(r)
      BY <2>1, Zenon DEF Revise
    <2> QED
      BY <2>1, <2>2, ReviseLocks DEF Revise, Unpermitted
  <1>2. ASSUME NEW q \in Readers \ {r}, pc'[q] = "publish"
        PROVE  ~Unpermitted(q)' /\ lock'[got'[q].lock].revision = got'[q].id
    <2> DEFINE l == got[q].lock
    <2>1. pc[q] = "publish" /\ got'[q] = got[q] /\ l \in DOMAIN lock
      BY <1>0, <1>2, OthersKept
    <2>2. lock[l].revision = got[q].id /\ (guard = q \/ lock[l].permit = q)
      BY <2>1 DEF Revised, Unpermitted
    <2>3. guard = q => guard' = q
      <3>1. ~Miss(r) /\ guard = q => guard' = q
        BY ReaderEffects
      <3> QED
        BY <3>1, MissLocks, CacheAssumption
    <2>4. lock[l].permit = q => lock'[l].permit = q
      <3>1. CASE Hit(r) \/ Build(r) \/ Scan(r) \/ ReadChanges(r) \/ UpdateItems(r) \/ Return(r)
        BY <3>1 DEF Hit, Build, Scan, ReadChanges, UpdateItems, Return
      <3>2. CASE Miss(r)
        BY <2>1, <3>2, MissLocks, LockRecords
      <3>3. CASE Acquire(r)
        <4>1. lock[got[r].lock].permit = NoReader
          BY <3>3 DEF Acquire
        <4> QED
          BY <2>1, <3>3, <4>1, AcquireLocks, CacheAssumption
      <3>4. CASE Revise(r)
        BY <2>1, <3>4, ReviseLocks
      <3>5. CASE Publish(r) \/ Fail(r)
        BY <2>1, <3>5, ReleasedLocks DEF Publish, Fail
      <3> QED
        BY <3>1, <3>2, <3>3, <3>4, <3>5 DEF Read
    <2>5. lock'[l].revision = lock[l].revision
      <3>1. CASE Hit(r) \/ Build(r) \/ Scan(r) \/ ReadChanges(r) \/ UpdateItems(r) \/ Return(r)
        BY <3>1 DEF Hit, Build, Scan, ReadChanges, UpdateItems, Return
      <3>2. CASE Miss(r)
        BY <2>1, <3>2, MissLocks, LockRecords
      <3>3. CASE Acquire(r)
        BY <2>1, <3>3, AcquireLocks
      <3>4. CASE Revise(r)
        <4>1. guard = r \/ lock[got[r].lock].permit = r
          BY <3>4, Zenon DEF Revise, Unpermitted
        <4>2. got[r].lock # l
          BY <2>2, <4>1, CacheAssumption DEF GuardAlone
        <4> QED
          BY <2>1, <3>4, <4>2, ReviseLocks
      <3>5. CASE Publish(r) \/ Fail(r)
        BY <2>1, <3>5, ReleasedLocks DEF Publish, Fail
      <3> QED
        BY <3>1, <3>2, <3>3, <3>4, <3>5 DEF Read
    <2> QED
      BY <2>1, <2>2, <2>3, <2>4, <2>5 DEF Unpermitted
  <1> QED
    BY <1>1, <1>2 DEF Revised, Unpermitted

\* Nor does anybody else replace the cached entry.
LEMMA StepCachedRevision ==
    ASSUME TypeOK, GuardAlone, ReadsAhead, Revised, CachedRevision,
           NEW r \in Readers, Read(r), ~unlocked'
    PROVE  CachedRevision'
  <1> DEFINE c == cache.lock
             p == lock[c].permit
  <1>0. cache # NoEntry => c \in DOMAIN lock
    BY LockRecords DEF TypeOK, EntryOK
  <1>a. ASSUME cache # NoEntry, p # NoReader
        PROVE  p \in Readers /\ pc[p] \in {"update", "revise", "publish"}
    BY <1>0, <1>a, LockRecords DEF TypeOK, LockOK
  <1>b. NoEntry' = NoEntry
    OBVIOUS
  \* Somebody else has the permit, or nobody, and the lock is as it was.
  <1>c. ASSUME cache' = cache, cache # NoEntry, p # r, lock'[c].permit = p,
               lock'[c].revision = lock[c].revision
        PROVE  CachedRevision'
    <2>1. CASE p = NoReader
      BY <1>b, <1>c, <2>1 DEF CachedRevision
    <2>2. CASE p # NoReader
      <3>1. pc'[p] = pc[p] /\ got'[p] = got[p] /\ changed'[p] = changed[p]
        BY <1>a, <1>c, <2>2, OthersKept
      <3> QED
        BY <1>b, <1>c, <2>2, <3>1 DEF CachedRevision
    <2> QED
      BY <2>1, <2>2
  <1>1. CASE cache' = NoEntry
    BY <1>b, <1>1 DEF CachedRevision
  <1>2. ASSUME Hit(r) \/ Build(r) \/ Scan(r) \/ ReadChanges(r) \/ Return(r),
               cache' # NoEntry
        PROVE  CachedRevision'
    <2>1. cache' = cache /\ lock' = lock /\ pc[r] \notin {"update", "revise", "publish"}
      BY <1>2 DEF Hit, Begin, Build, Scan, ReadChanges, Return
    <2>2. p # r
      BY <1>2, <1>a, <2>1, CacheAssumption
    <2> QED
      BY <1>2, <1>c, <2>1, <2>2
  <1>3. CASE Miss(r)
    BY <1>1, <1>3, MissLocks
  <1>4. ASSUME Acquire(r), cache' # NoEntry PROVE CachedRevision'
    <2> DEFINE l == got[r].lock
    <2>1. cache' = cache /\ pc[r] = "lock" /\ lock[l].permit = NoReader
      BY <1>4 DEF Acquire
    <2>2. p # r
      BY <1>4, <1>a, <2>1, CacheAssumption
    <2>3. CASE lock' = lock \/ c # l
      BY <1>0, <1>4, <1>c, <2>1, <2>2, <2>3, AcquireLocks
    <2>4. CASE lock' # lock /\ c = l
      <3>1. lock[c].revision = cache.id
        BY <1>4, <2>1, <2>4 DEF CachedRevision
      <3>2. /\ pc'[r] = "update" /\ lock'[c].permit = r
            /\ lock'[c].revision = lock[c].revision
        BY <1>4, <2>4, AcquireLocks
      <3>3. ~(lock[l].revision # got[r].id /\ cache.id >= changed[r].to)
        BY <1>4, <2>1, <2>4 DEF Acquire, Peeked
      <3>4. /\ changed'[r] = changed[r] /\ changed[r].to >= got[r].id
            /\ changed[r].to \in Int /\ cache.id \in Int
        BY <1>4, <2>1 DEF Acquire, ReadsAhead, TypeOK, EntryOK
      <3>5. changed[r].to >= cache.id
        BY <2>4, <3>1, <3>3, <3>4
      <3> QED
        BY <1>4, <1>b, <2>1, <3>1, <3>2, <3>4, <3>5, CacheAssumption DEF CachedRevision
    <2> QED
      BY <2>3, <2>4
  <1>5. ASSUME UpdateItems(r), cache' # NoEntry PROVE CachedRevision'
    <2>1. cache' = cache /\ lock' = lock /\ pc[r] = "update"
      BY <1>5 DEF UpdateItems
    <2>2. CASE p = r
      <3>1. changed[r].to >= cache.id
        BY <1>5, <2>1, <2>2, CacheAssumption DEF CachedRevision
      <3>2. pc'[r] = "revise" /\ got'[r].id = changed[r].to
        <4>1. got[r] \in [id : 0..MaxChanges, items : Items, lock : 0..Len(lock)]
          BY DEF TypeOK, EntryOK
        <4> QED
          BY <1>5, <4>1 DEF UpdateItems, Goto, TypeOK, LockOK, EntryOK
      <3> QED
        BY <1>5, <1>b, <2>1, <2>2, <3>1, <3>2, CacheAssumption DEF CachedRevision
    <2> QED
      BY <1>5, <1>c, <2>1, <2>2
  <1>6. ASSUME Revise(r), cache' # NoEntry PROVE CachedRevision'
    <2>1. cache' = cache /\ pc[r] = "revise" /\ pc'[r] = "publish" /\ got' = got
      BY <1>6 DEF Revise, Goto, TypeOK, LockOK
    <2>2. guard = r \/ lock[got[r].lock].permit = r
      BY <1>6, Zenon DEF Revise, Unpermitted
    <2>3. CASE p = r
      <3>1. got[r].id >= cache.id
        BY <1>6, <2>1, <2>3, CacheAssumption DEF CachedRevision
      <3>2. lock'[c].permit = r
        BY <1>0, <1>6, <2>1, <2>3, ReviseLocks
      <3> QED
        BY <1>6, <1>b, <2>1, <3>1, <3>2, CacheAssumption DEF CachedRevision
    <2>4. CASE p # r
      <3>1. got[r].lock # c
        BY <2>2, <2>4, CacheAssumption DEF GuardAlone
      <3> QED
        BY <1>0, <1>6, <1>c, <2>1, <2>4, <3>1, ReviseLocks
    <2> QED
      BY <2>3, <2>4
  <1>7. ASSUME Publish(r), cache' # NoEntry PROVE CachedRevision'
    <2>1. cache' = got[r] /\ pc[r] = "publish"
      BY <1>7 DEF Publish
    <2>2. lock[got[r].lock].revision = got[r].id
          /\ (guard = r \/ lock[got[r].lock].permit = r)
      BY <2>1 DEF Revised, Unpermitted
    <2>3. got[r].lock \in DOMAIN lock
      <3>1. got[r] \in [id : 0..MaxChanges, items : Items, lock : 0..Len(lock)]
            /\ got[r].lock # 0
        BY <2>1 DEF TypeOK, EntryOK
      <3> QED
        BY <3>1, LockRecords
    <2>4. lock'[got[r].lock].permit = NoReader
      BY <1>7, <2>2, <2>3, ReleasedLocks, CacheAssumption DEF Publish, GuardAlone
    <2>5. lock'[got[r].lock].revision = got[r].id
      BY <1>7, <2>2, <2>3, ReleasedLocks DEF Publish
    <2> QED
      BY <1>b, <2>1, <2>4, <2>5 DEF CachedRevision
  <1>8. ASSUME Fail(r), cache' # NoEntry PROVE CachedRevision'
    <2>1. cache' = cache /\ pc[r] \notin {"revise", "publish"}
      BY <1>8 DEF Fail
    <2>2. /\ lock'[c].revision = lock[c].revision
          /\ lock'[c].permit = IF p = r THEN NoReader ELSE p
      BY <1>0, <1>8, <2>1, ReleasedLocks DEF Fail
    <2>3. CASE p = r
      <3>1. lock[c].revision = cache.id
        BY <1>8, <1>a, <2>1, <2>3, CacheAssumption DEF CachedRevision
      <3> QED
        BY <1>b, <2>1, <2>2, <2>3, <3>1 DEF CachedRevision
    <2> QED
      BY <1>8, <1>c, <2>1, <2>2, <2>3
  <1> QED
    BY <1>1, <1>2, <1>3, <1>4, <1>5, <1>6, <1>7, <1>8 DEF Read

\* What QuietInv says of the locks and the readers.
QuietReaders ==
    /\ ~unlocked
    /\ Len(lock) <= 1
    /\ Len(lock) = 1 => guard # NoReader \/ cache # NoEntry
    /\ cache # NoEntry => guard = NoReader
    /\ guard # NoReader => \A r \in Readers \ {guard} : pc[r] = "idle"
    /\ \A r \in Readers :
          /\ pc[r] \in {"build", "scan"} => guard = r
          /\ pc[r] \in {"update", "revise", "publish"} => ~Unpermitted(r)

\* As long as nothing is truncated, evicted or fails, the readers share one lock.
LEMMA StepQuietReaders ==
    ASSUME TypeOK, GuardAlone, QuietReaders, NEW r \in Readers, Read(r), ~Fail(r),
           \A k \in DOMAIN log : log[k] \notin {Gone, Truncated}
    PROVE  QuietReaders'
  <1>0. /\ Len(lock) \in Nat /\ DOMAIN lock = 1..Len(lock)
        /\ \A q \in Readers : got[q].lock \in 0..Len(lock)
        /\ \A q \in Readers : pc[q] # "idle" => got[q].lock # 0
        /\ cache # NoEntry => cache.lock \in 1..Len(lock)
    BY LockRecords DEF TypeOK, EntryOK
  <1>1. CASE Miss(r)
    <2>1. Len(lock) = 0
      BY <1>0, <1>1, MissLocks DEF QuietReaders
    <2>2. \A q \in Readers : pc[q] = "idle"
      BY <1>0, <2>1
    <2>3. ~unlocked'
      BY <1>1 DEF Miss, history, QuietReaders
    <2>4. \A q \in Readers \ {r} : pc'[q] = "idle"
      BY <2>2, OthersKept
    <2>5. /\ Len(lock') = 1 /\ pc'[r] = "build" /\ guard' = r /\ cache' = NoEntry
      BY <1>1, <2>1, MissLocks
    <2> QED
      BY <2>3, <2>4, <2>5, CacheAssumption DEF QuietReaders
  <1>2. CASE Publish(r)
    <2>1. guard = r \/ lock[got[r].lock].permit = r
      BY <1>2 DEF Publish, QuietReaders, Unpermitted
    <2>2. guard' = NoReader
      BY <1>2, <2>1 DEF Publish, Released, QuietReaders
    <2>3. cache' # NoEntry
      BY <1>0, <1>2, NoEntryType DEF Publish
    <2>4. ~unlocked'
      <3>1. CASE guard = r
        BY <1>2, <2>1, <3>1, CacheAssumption DEF Publish, QuietReaders, Unpermitted
      <3>2. CASE guard # r
        <4>1. cache # NoEntry => cache.lock = got[r].lock
          BY <1>0, <1>2 DEF Publish, QuietReaders
        <4> QED
          BY <1>2, <2>1, <3>2, <4>1 DEF Publish, QuietReaders, Unpermitted
      <3> QED
        BY <3>1, <3>2
    <2>5. /\ Len(lock') = Len(lock) /\ pc'[r] = "return"
          /\ \A k \in DOMAIN lock :
                lock'[k].permit = IF lock[k].permit = r THEN NoReader ELSE lock[k].permit
      BY <1>2, ReleasedLocks DEF Publish, Goto, TypeOK, LockOK
    <2>6. ASSUME NEW q \in Readers \ {r}
          PROVE  /\ pc'[q] \in {"build", "scan"} => guard' = q
                 /\ pc'[q] \in {"update", "revise", "publish"} => ~Unpermitted(q)'
      <3>1. pc'[q] = pc[q] /\ got'[q] = got[q]
        BY <1>2, OthersKept
      <3>2. guard # q
        BY <1>2, CacheAssumption DEF Publish, QuietReaders
      <3>3. pc[q] \in {"update", "revise", "publish"} =>
                lock[got[q].lock].permit = q /\ got[q].lock \in DOMAIN lock
        BY <1>0, <3>2 DEF QuietReaders, Unpermitted
      <3> QED
        BY <2>5, <3>1, <3>2, <3>3 DEF QuietReaders, Unpermitted
    <2> QED
      BY <2>2, <2>3, <2>4, <2>5, <2>6, CacheAssumption DEF QuietReaders
  <1>3. CASE ~Miss(r) /\ ~Publish(r)
    <2>1. cache' = cache /\ guard' = guard
      BY <1>3 DEF Read, Hit, Build, Scan, ReadChanges, Acquire, UpdateItems, Revise, Return
    <2>2. guard # NoReader /\ guard # r => pc[r] = "idle" /\ cache = NoEntry
      BY DEF QuietReaders
    <2>3. guard # NoReader /\ guard # r => FALSE
      BY <1>3, <2>2 DEF Read, Hit, Build, Scan, ReadChanges, Acquire, UpdateItems,
             Revise, Return, Begin
    <2>4. pc'[r] \in {"build", "scan"} => guard = r
      <3>1. ~IsTruncated(got[r].id)
        BY KeptIds DEF IsTruncated, Since
      <3>2. pc'[r] = "build" => FALSE
        <4>1. CASE ReadChanges(r)
          BY <3>1, <4>1 DEF ReadChanges, Goto, TypeOK, LockOK
        <4>2. CASE ~ReadChanges(r)
          BY <1>3, <4>2 DEF Read, Hit, Build, Scan, Acquire, UpdateItems, Revise, Return,
                 Goto, TypeOK, LockOK
        <4> QED
          BY <4>1, <4>2
      <3>3. pc'[r] = "scan" => pc[r] = "build"
        BY <1>3 DEF Read, Hit, Build, Scan, ReadChanges, Acquire, UpdateItems, Revise, Return,
               Goto, TypeOK, LockOK
      <3> QED
        BY <3>2, <3>3 DEF QuietReaders
    <2>5. Len(lock') = Len(lock)
      <3>1. DOMAIN lock' = DOMAIN lock
        BY <1>3, ReaderEffects
      <3>2. Len(lock') \in Nat /\ DOMAIN lock' = 1..Len(lock')
        BY <1>0, <3>1, CacheTyped, LockRecords DEF Next
      <3> QED
        BY <1>0, <3>1, <3>2
    <2>6. pc'[r] \in {"update", "revise", "publish"} => ~Unpermitted(r)'
      <3>1. CASE Acquire(r)
        <4>1. /\ got'[r] \in {got[r], Peeked(r)} /\ pc[r] = "lock"
          BY <3>1 DEF Acquire, TypeOK, EntryOK
        <4>2. got'[r].lock = got[r].lock
          BY <1>0, <4>1 DEF QuietReaders, Peeked
        <4> QED
          BY <3>1, <4>2, AcquireLocks DEF Unpermitted
      <3>2. CASE Revise(r)
        BY <2>1, <3>2, ReviseLocks DEF Revise, QuietReaders, Unpermitted
      <3>3. CASE UpdateItems(r) \/ Scan(r)
        <4>0. got[r] \in [id : 0..MaxChanges, items : Items, lock : 0..Len(lock)]
          BY DEF TypeOK, EntryOK
        <4>1. got'[r].lock = got[r].lock /\ lock' = lock
          <5>1. CASE Scan(r)
            BY <4>0, <5>1 DEF Scan, TypeOK, EntryOK
          <5>2. CASE UpdateItems(r)
            <6>1. \E x, y : got' = [got EXCEPT ![r] = [got[r] EXCEPT !.id = x, !.items = y]]
              BY <5>2, Zenon DEF UpdateItems
            <6> QED
              BY <4>0, <5>2, <6>1 DEF UpdateItems, TypeOK, EntryOK
          <5> QED
            BY <3>3, <5>1, <5>2
        <4>2. pc[r] \in {"update", "scan"}
          BY <3>3 DEF UpdateItems, Scan
        <4> QED
          BY <2>1, <4>1, <4>2 DEF QuietReaders, Unpermitted
      <3>4. CASE Hit(r) \/ Build(r) \/ ReadChanges(r) \/ Return(r)
        BY <3>4 DEF Hit, Build, ReadChanges, Return, Goto, TypeOK, LockOK
      <3> QED
        BY <1>3, <3>1, <3>2, <3>3, <3>4 DEF Read
    <2>7. ASSUME NEW q \in Readers \ {r}
          PROVE  /\ pc'[q] \in {"build", "scan"} => guard' = q
                 /\ pc'[q] \in {"update", "revise", "publish"} => ~Unpermitted(q)'
      <3>1. pc'[q] = pc[q] /\ got'[q] = got[q]
        BY OthersKept
      <3>2. pc[q] \in {"update", "revise", "publish"} =>
                guard = q \/ (lock[got[q].lock].permit = q /\ got[q].lock \in DOMAIN lock)
        BY <1>0 DEF QuietReaders, Unpermitted
      <3>3. ASSUME lock[got[q].lock].permit = q, got[q].lock \in DOMAIN lock
            PROVE  lock'[got[q].lock].permit = q
        <4>1. CASE Acquire(r)
          BY <3>3, <4>1, AcquireLocks, CacheAssumption DEF Acquire
        <4>2. CASE Revise(r)
          BY <3>3, <4>2, ReviseLocks
        <4>3. CASE ~Acquire(r) /\ ~Revise(r)
          BY <1>3, <3>3, <4>3 DEF Read, Hit, Build, Scan, ReadChanges, UpdateItems, Return
        <4> QED
          BY <4>1, <4>2, <4>3
      <3> QED
        BY <2>1, <3>1, <3>2, <3>3 DEF QuietReaders, Unpermitted
    <2>8. ~unlocked'
      <3>1. CASE Revise(r)
        BY <3>1 DEF Revise, QuietReaders
      <3>2. CASE ~Revise(r)
        BY <1>3, <3>2 DEF Read, Hit, Build, Scan, ReadChanges, Acquire, UpdateItems, Return,
               history, QuietReaders
      <3> QED
        BY <3>1, <3>2
    <2>9. guard' # NoReader => \A q \in Readers \ {guard'} : pc'[q] = "idle"
      BY <2>1, <2>3, OthersKept DEF QuietReaders
    <2> QED
      BY <2>1, <2>4, <2>5, <2>6, <2>7, <2>8, <2>9 DEF QuietReaders
  <1> QED
    BY <1>1, <1>2, <1>3

\* What a change logs is neither of the marks.
LEMMA NoMark ==
    ASSUME NEW ins, NEW upd, NEW del
    PROVE  LogEntry(ins, upd, del) \notin {Gone, Truncated}
  <1>1. /\ LogEntry(ins, upd, del).kind = "changes"
        /\ Gone.kind = "gone" /\ Truncated.kind = "truncated"
    BY DEF LogEntry, Gone, Truncated
  <1>2. "changes" # "gone" /\ "changes" # "truncated"
    OBVIOUS
  <1> QED
    BY <1>1, <1>2, Zenon

\* Nor is anything truncated, evicted or failed without an event.
LEMMA StepQuiet ==
    ASSUME TypeOK, GuardAlone, QuietInv, [Next]_vars
    PROVE  QuietInv'
  <1> SUFFICES ASSUME events' = 0 PROVE QuietInv'
    BY DEF QuietInv
  <1>0. log \in Seq(LogEntries) /\ events \in Nat
    BY CacheAssumption DEF TypeOK, StoreOK
  <1>1. CASE UNCHANGED vars
    BY <1>1 DEF vars, store, history, QuietInv, Unpermitted
  <1>2. CASE Write
    <2>a. \E ins, upd, del : log' = Append(log, LogEntry(ins, upd, del))
      <3>1. PICK d \in Docs : \/ \E thread \in Threads : Insert(d, thread) \/ Reassign(d, thread)
                              \/ Update(d) \/ Delete(d)
        BY <1>2 DEF Write
      <3>2. CASE \E thread \in Threads : Insert(d, thread) \/ Reassign(d, thread)
        BY <3>2, Zenon DEF Insert, Reassign, Commit
      <3>3. CASE Update(d)
        BY <3>3, Zenon DEF Update, Commit
      <3>4. CASE Delete(d)
        BY <3>4, Zenon DEF Delete, Commit
      <3> QED
        BY <3>1, <3>2, <3>3, <3>4, Zenon
    <2>1. PICK e : e \notin {Gone, Truncated} /\ log' = Append(log, e)
      <3>1. PICK ins, upd, del : log' = Append(log, LogEntry(ins, upd, del))
        BY <2>a, Zenon
      <3>2. LogEntry(ins, upd, del) \notin {Gone, Truncated}
        BY NoMark, Zenon
      <3> QED
        BY <3>1, <3>2, Zenon
    <2>2. UNCHANGED <<trimmed, events>>
      BY <1>2 DEF Write, Insert, Update, Reassign, Delete, Commit
    <2>3. events = 0
      BY <2>2
    <2>4. \A k \in DOMAIN log' : log'[k] \notin {Gone, Truncated}
      BY <1>0, <2>1, <2>3 DEF QuietInv
    <2> QED
      BY <1>2, <2>2, <2>4, StoreStep DEF QuietInv, Unpermitted, history
  <1>3. CASE Truncate \/ Evict
    BY <1>0, <1>3 DEF Truncate, Evict, Event
  <1>4. CASE MarkTruncated
    BY <1>4 DEF MarkTruncated, QuietInv
  <1>5. ASSUME NEW r \in Readers, Read(r) PROVE QuietInv'
    <2>1. ~Fail(r)
      BY <1>0 DEF Fail, Event
    <2>2. UNCHANGED <<log, trimmed, events>>
      BY <1>5, <2>1 DEF Read, Hit, Miss, Build, Scan, ReadChanges, Acquire, UpdateItems,
             Revise, Publish, Return, store
    <2>3. QuietReaders /\ trimmed = 0 /\ \A k \in DOMAIN log : log[k] \notin {Gone, Truncated}
      BY <2>2 DEF QuietInv, QuietReaders
    <2>4. QuietReaders'
      BY <1>5, <2>1, <2>3, StepQuietReaders
    <2> QED
      BY <2>2, <2>3, <2>4 DEF QuietInv, QuietReaders
  <1> QED
    BY <1>1, <1>2, <1>3, <1>4, <1>5 DEF Next

\* CacheInv holds at the start and after every step.
LEMMA CacheInductive ==
    /\ Init => CacheInv
    /\ CacheInv /\ [Next]_vars => CacheInv'
  <1>1. ASSUME Init PROVE CacheInv
    <2>1. TypeOK
      BY <1>1, CacheTyped
    <2>2. GuardAlone /\ ReadsAhead /\ ForwardInv
      BY <1>1 DEF Init, GuardAlone, ReadsAhead, ForwardInv, Revised, CachedRevision
    <2>3. QuietInv
      BY <1>1 DEF Init, QuietInv
    <2> QED
      BY <2>1, <2>2, <2>3 DEF CacheInv
  <1>2. ASSUME CacheInv, [Next]_vars PROVE CacheInv'
    <2>0. TypeOK /\ GuardAlone /\ ReadsAhead /\ ForwardInv /\ QuietInv
      BY <1>2 DEF CacheInv
    <2>1. TypeOK' /\ GuardAlone' /\ ReadsAhead' /\ QuietInv'
      BY <1>2, <2>0, CacheTyped, StepGuardAlone, StepReadsAhead, StepQuiet
    <2>2. ASSUME ~unlocked' PROVE Revised' /\ CachedRevision'
      <3>1. ~unlocked /\ Revised /\ CachedRevision
        BY <1>2, <2>0, <2>2, UnlockedGrows DEF ForwardInv
      <3>2. CASE UNCHANGED vars \/ Write \/ Truncate \/ MarkTruncated
        BY <3>1, <3>2, StoreStep DEF vars, history, Revised, CachedRevision, Unpermitted
      <3>3. CASE Evict
        BY <3>1, <3>3 DEF Evict, Revised, CachedRevision, Unpermitted
      <3>4. ASSUME NEW r \in Readers, Read(r) PROVE Revised' /\ CachedRevision'
        BY <2>0, <2>2, <3>1, <3>4, StepRevised, StepCachedRevision
      <3> QED
        BY <1>2, <3>2, <3>3, <3>4 DEF Next
    <2> QED
      BY <2>1, <2>2 DEF CacheInv, ForwardInv
  <1> QED
    BY <1>1, <1>2

\* The cached entry goes back to an older id only once some reader wrote one, or
\* the revision of one, without its permit (get_cached_messages after a truncated
\* log, or after an eviction): UpdateLock orders all other updates.
THEOREM CacheGoesForward == Spec => GoesForward
  <1>1. ASSUME CacheInv, [Next]_vars,
               cache # NoEntry, cache' # NoEntry, cache'.id < cache.id
        PROVE  unlocked' /\ events > 0
    <2>0. TypeOK /\ GuardAlone /\ ForwardInv /\ QuietInv /\ events \in Nat
          /\ CacheInv'
      BY <1>1, CacheInductive, CacheAssumption DEF CacheInv, TypeOK
    <2>1. cache' # cache /\ cache.id \in Int
      BY <1>1, <2>0 DEF TypeOK, EntryOK
    <2>2. PICK r \in Readers : Publish(r)
      BY <1>1, <2>1, StoreStep DEF Next, Read, vars, Evict, Hit, Miss, Build, Scan,
             ReadChanges, Acquire, UpdateItems, Revise, Return, Fail
    <2>3. unlocked'
      <3> SUFFICES ASSUME ~unlocked' PROVE FALSE
        OBVIOUS
      <3>1. lock[cache.lock].permit = r /\ ~unlocked
        BY <1>1, <2>2 DEF Publish
      <3>2. got[r].id >= cache.id
        BY <1>1, <2>0, <2>2, <3>1, CacheAssumption DEF Publish, ForwardInv, CachedRevision
      <3>3. got[r].id \in Int
        BY <2>0 DEF TypeOK, EntryOK
      <3> QED
        BY <1>1, <2>1, <2>2, <3>2, <3>3 DEF Publish
    <2>4. events' = events
      BY <2>2 DEF Publish
    <2>5. events # 0
      BY <2>0, <2>3, <2>4 DEF CacheInv, QuietInv
    <2> QED
      BY <2>0, <2>3, <2>5
  <1>2. CacheInv /\ [Next]_vars =>
            [cache # NoEntry /\ cache' # NoEntry /\ cache'.id < cache.id =>
                unlocked' /\ events > 0]_vars
    BY <1>1
  <1> QED
    BY <1>2, CacheInductive, PTL DEF Spec, GoesForward
-----------------------------------------------------------------------------
(* The net changes of the log                                              *)

\* A nonempty set of naturals has a least element: the induction over the log.
LEMMA Least ==
    ASSUME NEW S, S \subseteq Nat, S # {}
    PROVE  \E m \in S : \A y \in S : m <= y
  <1> DEFINE R == {ss \in Nat \X Nat : ss[1] < ss[2]}
  <1>1. IsWellFoundedOn(R, Nat)
    BY NatLessThanWellFounded, Zenon DEF OpToRel
  <1>2. PICK m \in S : \A y \in S : ~ (<<y, m>> \in R)
    BY <1>1, WFMin, Zenon
  <1>3. ASSUME NEW y \in S PROVE m <= y
    <2>1. ~ (<<y, m>> \in R)
      BY <1>2
    <2> QED
      BY <2>1
  <1> QED
    BY <1>3

\* What the iteration over log l makes of entry k.
NetTo(net, l, id, k) ==
    IF k = 0 THEN NoNet
    ELSE IF k <= id \/ l[k] \in {Gone, Truncated} THEN net[k - 1]
    ELSE Merge(net[k - 1], l[k])

\* There is such an iteration, for any log ...
LEMMA NetExists ==
    ASSUME NEW l, NEW id, NEW n \in Nat
    PROVE  \E net : net = [k \in 0..n |-> NetTo(net, l, id, k)]
  <1> DEFINE Is(net, i) == net = [k \in 0..i |-> NetTo(net, l, id, k)]
             Bad == {i \in Nat : ~ \E net : Is(net, i)}
  <1>1. SUFFICES ASSUME Bad # {} PROVE FALSE
    BY Zenon
  <1>2. PICK i \in Bad : \A j \in Bad : i <= j
    <2> HIDE DEF Bad
    <2>1. Bad \subseteq Nat
      BY DEF Bad
    <2> QED
      BY <1>1, <2>1, Least
  <1>3. CASE i = 0
    <2> DEFINE net == [k \in 0..0 |-> NoNet]
    <2>1. \A k \in 0..0 : NetTo(net, l, id, k) = NoNet
      BY DEF NetTo
    <2>2. Is(net, 0)
      BY <2>1
    <2> QED
      BY <1>3, <2>2
  <1>4. CASE i # 0
    <2>1. i - 1 \in Nat /\ i - 1 \notin Bad /\ i \in Nat
      BY <1>2, <1>4
    <2>2. PICK net : Is(net, i - 1)
      BY <2>1
    <2> DEFINE more == [k \in 0..i |-> IF k = i THEN NetTo(net, l, id, i) ELSE net[k]]
    <2>3. ASSUME NEW k \in 0..i
          PROVE  more[k] = NetTo(more, l, id, k)
      <3>1. k # 0 => more[k - 1] = net[k - 1]
        BY <2>1
      <3>2. NetTo(more, l, id, k) = NetTo(net, l, id, k)
        BY <3>1 DEF NetTo
      <3>3. k # i => net[k] = NetTo(net, l, id, k)
        <4> SUFFICES ASSUME k # i PROVE net[k] = NetTo(net, l, id, k)
          OBVIOUS
        <4>1. k \in 0..(i - 1)
          BY <2>1
        <4> QED
          BY <2>2, <4>1
      <3> QED
        BY <3>2, <3>3
    <2>4. Is(more, i)
      <3> HIDE DEF more
      <3>1. more = [k \in 0..i |-> more[k]]
        BY DEF more
      <3> QED
        BY <2>3, <3>1
    <2> QED
      BY <2>4
  <1> QED
    BY <1>3, <1>4

\* ... and NetUpTo is one.
LEMMA NetIteration ==
    ASSUME NEW l, Len(l) \in Nat, NEW id
    PROVE  NetUpTo(l, id) = [k \in 0..Len(l) |-> NetTo(NetUpTo(l, id), l, id, k)]
  <1>1. PICK net : net = [k \in 0..Len(l) |-> NetTo(net, l, id, k)]
    BY NetExists
  <1>2. net = [k \in 0..Len(l) |->
                 IF k = 0 THEN NoNet
                 ELSE IF k <= id \/ l[k] \in {Gone, Truncated} THEN net[k - 1]
                 ELSE Merge(net[k - 1], l[k])]
    BY <1>1, Zenon DEF NetTo
  <1>3. NetUpTo(l, id) = [k \in 0..Len(l) |->
                 IF k = 0 THEN NoNet
                 ELSE IF k <= id \/ l[k] \in {Gone, Truncated} THEN NetUpTo(l, id)[k - 1]
                 ELSE Merge(NetUpTo(l, id)[k - 1], l[k])]
    BY <1>2, Zenon DEF NetUpTo
  <1> QED
    BY <1>3, Zenon DEF NetTo

\* The net changes after id depend on the entries after id only.
LEMMA NetAgrees ==
    ASSUME NEW l, Len(l) \in Nat, NEW m, Len(m) \in Nat, NEW id \in Nat,
           NEW n \in Nat, n <= Len(l), n <= Len(m),
           \A k \in 1..n : k > id => l[k] = m[k]
    PROVE  NetUpTo(l, id)[n] = NetUpTo(m, id)[n]
  <1> DEFINE Bad == {j \in 0..n : NetUpTo(l, id)[j] # NetUpTo(m, id)[j]}
  <1>1. SUFFICES ASSUME Bad # {} PROVE FALSE
    OBVIOUS
  <1>2. PICK j \in Bad : \A i \in Bad : j <= i
    <2> HIDE DEF Bad
    <2>1. Bad \subseteq Nat
      BY DEF Bad
    <2> QED
      BY <1>1, <2>1, Least
  <1>3. /\ NetUpTo(l, id)[j] = NetTo(NetUpTo(l, id), l, id, j)
        /\ NetUpTo(m, id)[j] = NetTo(NetUpTo(m, id), m, id, j)
    BY <1>2, NetIteration
  <1>4. j # 0
    BY <1>3, <1>2 DEF NetTo
  <1>5. j \in 1..n /\ NetUpTo(l, id)[j - 1] = NetUpTo(m, id)[j - 1]
    <2>1. j - 1 \in 0..n /\ j - 1 \notin Bad
      BY <1>2, <1>4
    <2> QED
      BY <2>1, <1>2, <1>4
  <1>6. NetTo(NetUpTo(l, id), l, id, j) = NetTo(NetUpTo(m, id), m, id, j)
    BY <1>5 DEF NetTo
  <1> QED
    BY <1>2, <1>3, <1>6

\* So of two logs that have the same entries after id.
LEMMA NetKept ==
    ASSUME NEW l, Len(l) \in Nat, NEW m, Len(m) = Len(l), NEW id \in Nat,
           \A k \in 1..Len(l) : k > id => l[k] = m[k]
    PROVE  NetUpTo(l, id)[Len(l)] = NetUpTo(m, id)[Len(m)]
  <1>1. PICK n \in Nat : n = Len(l)
    OBVIOUS
  <1>2. /\ n <= Len(l) /\ n <= Len(m) /\ Len(l) \in Nat /\ Len(m) \in Nat /\ id \in Nat
        /\ \A k \in 1..n : k > id => l[k] = m[k]
    BY <1>1
  <1>3. NetUpTo(l, id)[n] = NetUpTo(m, id)[n]
    BY <1>2, NetAgrees
  <1> QED
    BY <1>1, <1>3

\* Up to id there is no change.
LEMMA NetBefore ==
    ASSUME NEW l, Len(l) \in Nat, NEW id \in Nat, NEW n \in 0..Len(l), n <= id
    PROVE  NetUpTo(l, id)[n] = NoNet
  <1> DEFINE Bad == {j \in 0..n : NetUpTo(l, id)[j] # NoNet}
  <1>1. SUFFICES ASSUME Bad # {} PROVE FALSE
    OBVIOUS
  <1>2. PICK j \in Bad : \A i \in Bad : j <= i
    <2> HIDE DEF Bad
    <2>1. Bad \subseteq Nat
      BY DEF Bad
    <2> QED
      BY <1>1, <2>1, Least
  <1>3. NetUpTo(l, id)[j] = NetTo(NetUpTo(l, id), l, id, j)
    BY <1>2, NetIteration
  <1>4. j # 0
    BY <1>3, <1>2 DEF NetTo
  <1>5. NetUpTo(l, id)[j - 1] = NoNet
    <2>1. j - 1 \in 0..n /\ j - 1 \notin Bad
      BY <1>2, <1>4
    <2> QED
      BY <2>1
  <1> QED
    BY <1>2, <1>3, <1>4, <1>5 DEF NetTo

\* An entry that is appended to a log merges into the changes since every id ...
Grown(l, m, n) ==
    /\ n \in Nat /\ Len(l) = n /\ Len(m) = n + 1
    /\ (\A k \in 1..n : m[k] = l[k]) /\ m[n + 1] \notin {Gone, Truncated}

LEMMA NetGrown ==
    ASSUME NEW l, NEW m, NEW n, Grown(l, m, n), NEW id \in 0..n
    PROVE  NetUpTo(m, id)[n + 1] = Merge(NetUpTo(l, id)[n], m[n + 1])
  <1>1. /\ n \in Nat /\ Len(l) = n /\ Len(m) = n + 1 /\ n + 1 \in 0..Len(m)
        /\ (\A k \in 1..n : m[k] = l[k]) /\ m[n + 1] \notin {Gone, Truncated}
    BY DEF Grown
  <1>2. NetUpTo(m, id) = [k \in 0..Len(m) |-> NetTo(NetUpTo(m, id), m, id, k)]
    BY NetIteration
  <1>3. NetUpTo(m, id)[n + 1] = NetTo(NetUpTo(m, id), m, id, n + 1)
    BY <1>1, <1>2
  <1>4. NetTo(NetUpTo(m, id), m, id, n + 1) = Merge(NetUpTo(m, id)[n], m[n + 1])
    <2>1. n + 1 # 0 /\ ~ (n + 1 <= id) /\ (n + 1) - 1 = n
      BY <1>1
    <2> QED
      BY <1>1, <2>1 DEF NetTo
  <1>5. NetUpTo(m, id)[n] = NetUpTo(l, id)[n]
    <2>1. n <= Len(l) /\ n <= Len(m) /\ Len(l) \in Nat /\ Len(m) \in Nat /\ id \in Nat
          /\ \A k \in 1..n : k > id => l[k] = m[k]
      BY <1>1
    <2> QED
      BY <1>1, <2>1, NetAgrees
  <1> QED
    BY <1>3, <1>4, <1>5

\* ... so to the log of the account.
LEMMA NetAppended ==
    ASSUME TypeOK, NEW entry, entry \notin {Gone, Truncated}, log' = Append(log, entry),
           NEW id \in 0..Len(log)
    PROVE  NetChanges(id)' = Merge(NetChanges(id), entry)
  <1>1. /\ Len(log) \in Nat /\ Len(log') = Len(log) + 1 /\ log'[Len(log) + 1] = entry
        /\ \A k \in 1..Len(log) : log'[k] = log[k]
    BY DEF TypeOK, StoreOK
  <1>2. log'[Len(log) + 1] \notin {Gone, Truncated}
    BY <1>1
  <1>3. \A n \in Nat : n = Len(log) =>
            NetUpTo(log', id)[n + 1] = Merge(NetUpTo(log, id)[n], log'[n + 1])
    <2> SUFFICES ASSUME NEW n \in Nat, n = Len(log)
                 PROVE  NetUpTo(log', id)[n + 1] = Merge(NetUpTo(log, id)[n], log'[n + 1])
      OBVIOUS
    <2>1. Len(log) = n /\ Len(log') = n + 1 /\ id \in 0..n
      BY <1>1
    <2>2. \A k \in 1..n : log'[k] = log[k]
      BY <1>1
    <2>3. log'[n + 1] \notin {Gone, Truncated}
      BY <1>1
    <2> QED
      <3>1. PICK l, m : l = log /\ m = log'
        OBVIOUS
      <3>2. Grown(l, m, n)
        BY <2>1, <2>2, <2>3, <3>1 DEF Grown
      <3>3. id \in 0..n
        BY <2>1
      <3>4. NetUpTo(m, id)[n + 1] = Merge(NetUpTo(l, id)[n], m[n + 1])
        BY <3>2, <3>3, NetGrown
      <3> QED
        BY <3>1, <3>4, Zenon
  <1> QED
    BY <1>1, <1>3 DEF NetChanges

\* The items of S that are about document d.
Of(S, d) == {i \in S : i[2] = d}

\* One item is about one document.
LEMMA OfItem ==
    ASSUME NEW v, NEW d, NEW c
    PROVE  /\ Of({<<v, d>>}, d) = {<<v, d>>}
           /\ c # d => Of({<<v, d>>}, c) = {}
  <1>1. <<v, d>>[2] = d
    OBVIOUS
  <1>2. \A i : i \in Of({<<v, d>>}, d) <=> i = <<v, d>>
    BY <1>1, Zenon DEF Of
  <1>3. c # d => \A i : i \notin Of({<<v, d>>}, c)
    BY <1>1, Zenon DEF Of
  <1>4. \A i : i \in Of({<<v, d>>}, d) <=> i \in {<<v, d>>}
    BY <1>2, Zenon
  <1>5. Of({<<v, d>>}, d) = {<<v, d>>}
    BY <1>4, Zenon
  <1>6. c # d => Of({<<v, d>>}, c) = {}
    BY <1>3, Zenon
  <1> QED
    BY <1>5, <1>6, Zenon

\* The merge of an entry, for one document: what is inserted ...
LEMMA MergeIns ==
    ASSUME NEW net, NEW e, NEW d
    PROVE  Of(Merge(net, e).ins, d) =
               (Of(net.ins, d) \cup Of(e.ins, d)) \ Of(e.del, d)
  BY DEF Of, Merge

\* ... updated ...
LEMMA MergeUpd ==
    ASSUME NEW net, NEW e, NEW d
    PROVE  Of(Merge(net, e).upd, d) =
               (Of(net.upd, d) \cup (Of(e.upd, d) \ (Of(net.ins, d) \cup Of(e.ins, d))))
                   \ Of(e.del, d)
  BY DEF Of, Merge

\* ... and deleted.
LEMMA MergeDel ==
    ASSUME NEW net, NEW e, NEW d
    PROVE  Of(Merge(net, e).del, d) =
               Of(net.del, d) \cup (Of(e.del, d) \ (Of(net.ins, d) \cup Of(e.ins, d)))
  BY DEF Of, Merge

\* I, U and D are what net changes say about d: that it was inserted, updated or
\* deleted.  It is now the message m, and was version before; versions are those it
\* had since.  What was there is deleted under its id at most once,
\* and what is there is named under the id it has now.
DocNet(I, U, D, m, before, versions, d) ==
    /\ I \cup U \subseteq {<<m.thread, d>>}
    /\ m.change = 0 => I \cup U = {}
    /\ before = 0 => D = {} /\ (m.change # 0 => I # {})
    /\ before # 0 => IF m.change = 0 \/ I # {} THEN \E i : D = {i} ELSE D = {}
    /\ I \cup U = {} /\ m.change # 0 => versions = {before}

\* A batch that makes m of document d into n logs entry e; d was version before.
Fits(m, n, e, before, d) ==
    \/ /\ before = 0 /\ m.change = 0 /\ n.change # 0
       /\ e = LogEntry({<<n.thread, d>>}, {}, {})
    \/ /\ m.change # 0 /\ n.change # 0 /\ n.thread = m.thread
       /\ e = LogEntry({}, {<<m.thread, d>>}, {})
    \/ /\ m.change # 0 /\ n.change # 0 /\ n.thread # m.thread
       /\ e = LogEntry({<<n.thread, d>>}, {}, {<<m.thread, d>>})
    \/ /\ m.change # 0 /\ n.change = 0
       /\ e = LogEntry({}, {}, {<<m.thread, d>>})

\* The entry of a batch keeps the net changes right about its document.
LEMMA DocMerge ==
    ASSUME NEW net, NEW e, NEW m, NEW n, NEW before, NEW s, NEW t, NEW d,
           DocNet(Of(net.ins, d), Of(net.upd, d), Of(net.del, d), m, before, s, d),
           Fits(m, n, e, before, d)
    PROVE  DocNet(Of(Merge(net, e).ins, d), Of(Merge(net, e).upd, d),
                  Of(Merge(net, e).del, d), n, before, t, d)
  <1> DEFINE I == Of(net.ins, d)
             U == Of(net.upd, d)
             D == Of(net.del, d)
             both == I \cup Of(e.ins, d)
             I1 == Of(Merge(net, e).ins, d)
             U1 == Of(Merge(net, e).upd, d)
             D1 == Of(Merge(net, e).del, d)
  <1>1. I1 = both \ Of(e.del, d)
    BY MergeIns
  <1>u. U1 = (U \cup (Of(e.upd, d) \ both)) \ Of(e.del, d)
    BY MergeUpd
  <1>d. D1 = D \cup (Of(e.del, d) \ both)
    BY MergeDel
  <1>2. DocNet(I, U, D, m, before, s, d)
    OBVIOUS
  <1>3. \A v : Of({<<v, d>>}, d) = {<<v, d>>}
    BY OfItem, Zenon
  <1>4. Of({}, d) = {}
    BY DEF Of
  <1> HIDE DEF I, U, D, I1, U1, D1
  <1>5. CASE /\ before = 0 /\ m.change = 0 /\ n.change # 0
             /\ e = LogEntry({<<n.thread, d>>}, {}, {})
    <2>1. Of(e.ins, d) = {<<n.thread, d>>} /\ Of(e.upd, d) = {} /\ Of(e.del, d) = {}
      BY <1>3, <1>4, <1>5 DEF LogEntry
    <2>2. I = {} /\ U = {} /\ D = {}
      BY <1>2, <1>5 DEF DocNet
    <2>3. I1 = {<<n.thread, d>>} /\ U1 = {} /\ D1 = {}
      BY <1>1, <1>u, <1>d, <2>1, <2>2
    <2>4. DocNet(I1, U1, D1, n, before, t, d)
      BY <1>5, <2>3 DEF DocNet
    <2> QED
      BY <2>4 DEF I1, U1, D1
  <1>6. CASE /\ m.change # 0 /\ n.change # 0 /\ n.thread = m.thread
             /\ e = LogEntry({}, {<<m.thread, d>>}, {})
    <2>1. Of(e.ins, d) = {} /\ Of(e.upd, d) = {<<m.thread, d>>} /\ Of(e.del, d) = {}
      BY <1>3, <1>4, <1>6 DEF LogEntry
    <2>2. I1 = I /\ D1 = D /\ U1 = U \cup ({<<m.thread, d>>} \ I)
      BY <1>1, <1>u, <1>d, <2>1
    <2>3. I1 \cup U1 = {<<m.thread, d>>}
      BY <1>2, <2>2 DEF DocNet
    <2>4. DocNet(I1, U1, D1, n, before, t, d)
      BY <1>2, <1>6, <2>2, <2>3 DEF DocNet
    <2> QED
      BY <2>4 DEF I1, U1, D1
  <1>7. CASE /\ m.change # 0 /\ n.change # 0 /\ n.thread # m.thread
             /\ e = LogEntry({<<n.thread, d>>}, {}, {<<m.thread, d>>})
    <2>1. /\ Of(e.ins, d) = {<<n.thread, d>>} /\ Of(e.upd, d) = {}
          /\ Of(e.del, d) = {<<m.thread, d>>}
      BY <1>3, <1>4, <1>7 DEF LogEntry
    <2>2. <<n.thread, d>> # <<m.thread, d>>
      BY <1>7
    <2>3. I \subseteq {<<m.thread, d>>} /\ U \subseteq {<<m.thread, d>>}
      BY <1>2 DEF DocNet
    <2>4. /\ I1 = {<<n.thread, d>>} /\ U1 = {}
          /\ D1 = D \cup ({<<m.thread, d>>} \ I)
      BY <1>1, <1>u, <1>d, <2>1, <2>2, <2>3
    <2>5. IF before = 0 THEN D1 = {} ELSE \E i : D1 = {i}
      <3>1. CASE I = {}
        BY <1>2, <1>7, <2>4, <3>1 DEF DocNet
      <3>2. CASE I # {}
        <4>1. D1 = D
          BY <2>3, <2>4, <3>2
        <4> QED
          BY <1>2, <1>7, <3>2, <4>1 DEF DocNet
      <3> QED
        BY <3>1, <3>2
    <2>6. DocNet(I1, U1, D1, n, before, t, d)
      BY <1>7, <2>4, <2>5 DEF DocNet
    <2> QED
      BY <2>6 DEF I1, U1, D1
  <1>8. CASE /\ m.change # 0 /\ n.change = 0
             /\ e = LogEntry({}, {}, {<<m.thread, d>>})
    <2>1. Of(e.ins, d) = {} /\ Of(e.upd, d) = {} /\ Of(e.del, d) = {<<m.thread, d>>}
      BY <1>3, <1>4, <1>8 DEF LogEntry
    <2>2. I \subseteq {<<m.thread, d>>} /\ U \subseteq {<<m.thread, d>>}
      BY <1>2 DEF DocNet
    <2>3. I1 = {} /\ U1 = {} /\ D1 = D \cup ({<<m.thread, d>>} \ I)
      BY <1>1, <1>u, <1>d, <2>1, <2>2
    <2>4. IF before = 0 THEN D1 = {} ELSE \E i : D1 = {i}
      <3>1. CASE I = {}
        BY <1>2, <1>8, <2>3, <3>1 DEF DocNet
      <3>2. CASE I # {}
        <4>1. D1 = D
          BY <2>2, <2>3, <3>2
        <4> QED
          BY <1>2, <1>8, <3>2, <4>1 DEF DocNet
      <3> QED
        BY <3>1, <3>2
    <2>5. DocNet(I1, U1, D1, n, before, t, d)
      BY <1>8, <2>3, <2>4 DEF DocNet
    <2> QED
      BY <2>5 DEF I1, U1, D1
  <1> QED
    BY <1>5, <1>6, <1>7, <1>8 DEF Fits

\* It says nothing about another document.
LEMMA OtherMerge ==
    ASSUME NEW net, NEW e, NEW m, NEW n, NEW before, NEW d, NEW c, c # d,
           Fits(m, n, e, before, d)
    PROVE  /\ Of(Merge(net, e).ins, c) = Of(net.ins, c)
           /\ Of(Merge(net, e).upd, c) = Of(net.upd, c)
           /\ Of(Merge(net, e).del, c) = Of(net.del, c)
  <1>1. \A v : Of({<<v, d>>}, c) = {}
    BY OfItem, Zenon
  <1>2. Of({}, c) = {}
    BY DEF Of
  <1>3. PICK ins, upd, del :
            /\ e = LogEntry(ins, upd, del)
            /\ Of(ins, c) = {} /\ Of(upd, c) = {} /\ Of(del, c) = {}
    BY <1>1, <1>2, Zenon DEF Fits
  <1>4. Of(e.ins, c) = {} /\ Of(e.upd, c) = {} /\ Of(e.del, c) = {}
    BY <1>3 DEF LogEntry
  <1>5. Of(Merge(net, e).ins, c) = Of(net.ins, c)
    <2>1. Of(Merge(net, e).ins, c) = (Of(net.ins, c) \cup Of(e.ins, c)) \ Of(e.del, c)
      BY MergeIns
    <2> QED
      BY <1>4, <2>1
  <1>6. Of(Merge(net, e).upd, c) = Of(net.upd, c)
    <2>1. Of(Merge(net, e).upd, c) =
              (Of(net.upd, c) \cup (Of(e.upd, c) \ (Of(net.ins, c) \cup Of(e.ins, c))))
                  \ Of(e.del, c)
      BY MergeUpd
    <2> QED
      BY <1>4, <2>1
  <1>7. Of(Merge(net, e).del, c) = Of(net.del, c)
    <2>1. \A i : i \in Of(Merge(net, e).del, c) <=>
                   i \in Of(net.del, c) \/ (i \in Of(e.del, c) /\ i \notin net.ins \cup e.ins)
      BY DEF Of, Merge
    <2> QED
      BY <1>4, <2>1
  <1> QED
    BY <1>5, <1>6, <1>7

\* Nothing is missing from the log after id.
Complete(id) == \A k \in DOMAIN log : k > id => log[k] \notin {Gone, Truncated}

\* The versions that d had since change id.
VersionsSince(p, id, d) == {p[k][d] : k \in id + 1..Len(p)}

\* What the net changes since id say about d.
NetRight(id, d) ==
    DocNet(Of(NetChanges(id).ins, d), Of(NetChanges(id).upd, d),
           Of(NetChanges(id).del, d), message[d], past[id + 1][d],
           VersionsSince(past, id, d), d)

\* The last change is in the log, and the net changes since every id behind which
\* nothing is missing are right.
LogInv ==
    /\ \A d \in Docs : past[1][d] = 0
    /\ Len(log) > 0 => log[Len(log)] # Gone
    /\ \A d \in Docs : message[d].change = 0 => message[d] = Absent
    /\ \A id \in 0..Len(log) : Complete(id) => \A d \in Docs : NetRight(id, d)

\* Since the last change nothing has changed.
LEMMA NothingYet ==
    ASSUME NEW m, NEW d
    PROVE  DocNet(Of(NoNet.ins, d), Of(NoNet.upd, d), Of(NoNet.del, d), m, m.change,
                  {m.change}, d)
  BY DEF NoNet, Of, DocNet

\* A batch keeps the net changes right.
LEMMA CommitLog ==
    ASSUME TypeOK, TypeOK', LogInv, NEW d \in Docs, NEW new, NEW entry,
           Commit(d, new, entry), entry \notin {Gone, Truncated},
           new.change = 0 => new = Absent,
           \A k \in DOMAIN past : Fits(message[d], new, entry, past[k][d], d)
    PROVE  LogInv'
  <1> DEFINE n == Len(log)
  <1>1. /\ n \in Nat /\ Len(past) = n + 1 /\ DOMAIN past = 1..(n + 1)
        /\ DOMAIN log = 1..n
    BY DEF TypeOK, StoreOK
  <1>2. /\ log' = Append(log, entry) /\ Len(log') = n + 1 /\ DOMAIN log' = 1..(n + 1)
        /\ log'[n + 1] = entry /\ \A k \in 1..n : log'[k] = log[k]
    BY <1>1 DEF Commit, TypeOK, StoreOK
  <1>3. /\ message'[d] = new
        /\ \A c \in Docs \ {d} : message'[c] = message[c]
    BY DEF Commit, TypeOK, StoreOK
  <1>4. /\ Len(past') = n + 2
        /\ \A k \in 1..(n + 1) : past'[k] = past[k]
        /\ \A c \in Docs : past'[n + 2][c] = message'[c].change
    <2>1. Len(past') = Len(log') + 1 /\ past'[Len(past')] = Versions'
      BY DEF TypeOK, StoreOK
    <2>2. \A c \in Docs : Versions'[c] = message'[c].change
      BY DEF Versions
    <2>3. Len(past') = n + 2
      BY <1>1, <1>2, <2>1
    <2>4. \A k \in 1..(n + 1) : past'[k] = past[k]
      BY <1>1 DEF Commit, TypeOK, StoreOK
    <2> QED
      BY <2>1, <2>2, <2>3, <2>4
  <1>5. \A c \in Docs : past[n + 1][c] = message[c].change
    BY <1>1 DEF TypeOK, StoreOK, Versions
  <1>6. ASSUME NEW id \in 0..n, Complete(id), NEW c \in Docs
        PROVE  NetRight(id, c)'
    <2>1. NetRight(id, c) /\ id + 1 \in 1..(n + 1)
      BY <1>1, <1>6 DEF LogInv
    <2>2. NetChanges(id)' = Merge(NetChanges(id), entry)
      BY <1>2, <1>6, NetAppended
    <2>3. past'[id + 1] = past[id + 1]
      BY <1>4, <2>1
    <2>4. CASE c = d
      <3>1. Fits(message[d], new, entry, past[id + 1][d], d)
        BY <1>1, <2>1
      <3> QED
        BY <1>3, <2>1, <2>2, <2>3, <2>4, <3>1, DocMerge DEF NetRight
    <2>5. CASE c # d
      <3>1. /\ Of(NetChanges(id)'.ins, c) = Of(NetChanges(id).ins, c)
            /\ Of(NetChanges(id)'.upd, c) = Of(NetChanges(id).upd, c)
            /\ Of(NetChanges(id)'.del, c) = Of(NetChanges(id).del, c)
        BY <1>1, <2>1, <2>2, <2>5, OtherMerge
      <3>2. VersionsSince(past', id, c) = VersionsSince(past, id, c)
        <4>1. past'[n + 2][c] = past[n + 1][c]
          BY <1>3, <1>4, <1>5, <2>5
        <4>2. /\ \A k \in id + 1..n + 2 : k = n + 2 \/ (k \in id + 1..n + 1 /\ k \in 1..n + 1)
              /\ \A k \in id + 1..n + 1 : k \in id + 1..n + 2 /\ k \in 1..n + 1
              /\ n + 1 \in id + 1..n + 1 /\ n + 2 \in id + 1..n + 2
          BY <1>1, <1>6
        <4>3. \A v : v \in VersionsSince(past', id, c) <=> v \in VersionsSince(past, id, c)
          BY <1>1, <1>4, <4>1, <4>2 DEF VersionsSince
        <4> QED
          BY <4>3
      <3>3. message'[c] = message[c]
        BY <1>3, <2>5
      <3> QED
        BY <2>1, <2>3, <3>1, <3>2, <3>3 DEF NetRight
    <2> QED
      BY <2>4, <2>5
  <1>7. ASSUME NEW id \in Nat, id = n + 1, NEW c \in Docs
        PROVE  NetRight(id, c)'
    <2>1. NetChanges(id)' = NoNet
      <3>1. NetUpTo(log', id)[id] = NoNet
        <4>1. Len(log') \in Nat /\ id \in 0..Len(log') /\ id <= id
          BY <1>1, <1>2, <1>7
        <4> QED
          BY <4>1, NetBefore, Zenon
      <3> QED
        BY <1>2, <1>7, <3>1 DEF NetChanges
    <2>2. VersionsSince(past', id, c) = {message'[c].change}
      <3>1. \A k : k \in id + 1..n + 2 <=> k = n + 2
        BY <1>1, <1>7
      <3> QED
        BY <1>4, <3>1 DEF VersionsSince
    <2>3. past'[id + 1][c] = message'[c].change
      BY <1>1, <1>4, <1>7
    <2>4. DocNet(Of(NoNet.ins, c), Of(NoNet.upd, c), Of(NoNet.del, c), message'[c],
                 message'[c].change, {message'[c].change}, c)
      BY NothingYet
    <2> QED
      BY <2>1, <2>2, <2>3, <2>4, Zenon DEF NetRight
  <1>8. \A id \in 0..n : Complete(id)' => Complete(id)
    BY <1>1, <1>2 DEF Complete
  <1>9. \A c \in Docs : past'[1][c] = 0
    BY <1>1, <1>4 DEF LogInv
  <1>10. \A c \in Docs : message'[c].change = 0 => message'[c] = Absent
    BY <1>3 DEF LogInv
  <1>11. \A id \in 0..Len(log') : id \in 0..n \/ id = n + 1
    BY <1>1, <1>2
  <1>12. log'[Len(log')] # Gone
    BY <1>2
  <1> QED
    BY <1>6, <1>7, <1>8, <1>9, <1>10, <1>11, <1>12 DEF LogInv

\* The batches that change messages are such batches.
LEMMA WriteLog ==
    ASSUME TypeOK, TypeOK', LogInv, Write
    PROVE  LogInv'
  <1>1. /\ Len(log) \in Nat /\ Len(past) = Len(log) + 1 /\ DOMAIN past = 1..Len(log) + 1
        /\ \A d \in Docs : past[Len(log) + 1][d] = message[d].change
    BY DEF TypeOK, StoreOK, Versions
  <1>2. \A d \in Docs : message[d] # Absent => message[d].change # 0
    BY DEF LogInv
  <1>3. \A ins, upd, del : LogEntry(ins, upd, del) \notin {Gone, Truncated}
    <2>1. \A ins, upd, del : LogEntry(ins, upd, del).kind = "changes"
      BY DEF LogEntry
    <2>2. Gone.kind = "gone" /\ Truncated.kind = "truncated"
      BY DEF Gone, Truncated
    <2> QED
      BY <2>1, <2>2
  <1>4. \A t : Written(t).change # 0 /\ Written(t).thread = t
    BY <1>1 DEF Written
  <1>5. ASSUME NEW d \in Docs, NEW t \in Threads, Insert(d, t) PROVE LogInv'
    <2>1. \A k \in DOMAIN past : past[k][d] = 0
      BY <1>5 DEF Insert
    <2>2. message[d].change = 0
      BY <1>1, <2>1
    <2>3. \A k \in DOMAIN past : Fits(message[d], Written(t),
                LogEntry({<<t, d>>}, {}, {}), past[k][d], d)
      BY <1>4, <2>1, <2>2 DEF Fits
    <2>4. Commit(d, Written(t), LogEntry({<<t, d>>}, {}, {}))
      BY <1>5 DEF Insert
    <2> QED
      BY <1>3, <1>4, <2>3, <2>4, CommitLog
  <1>6. ASSUME NEW d \in Docs, NEW t \in Threads, Reassign(d, t) PROVE LogInv'
    <2>1. message[d].change # 0 /\ message[d].thread # t
      BY <1>2, <1>6 DEF Reassign
    <2>2. \A k \in DOMAIN past : Fits(message[d], Written(t),
                LogEntry({<<t, d>>}, {}, {<<message[d].thread, d>>}), past[k][d], d)
      BY <1>4, <2>1 DEF Fits
    <2>3. Commit(d, Written(t), LogEntry({<<t, d>>}, {}, {<<message[d].thread, d>>}))
      BY <1>6 DEF Reassign
    <2> QED
      BY <1>3, <1>4, <2>2, <2>3, CommitLog
  <1>7. ASSUME NEW d \in Docs, Update(d) PROVE LogInv'
    <2>1. message[d].change # 0
      BY <1>2, <1>7 DEF Update
    <2>2. \A k \in DOMAIN past : Fits(message[d], Written(message[d].thread),
                LogEntry({}, {<<message[d].thread, d>>}, {}), past[k][d], d)
      BY <1>4, <2>1 DEF Fits
    <2>3. Commit(d, Written(message[d].thread), LogEntry({}, {<<message[d].thread, d>>}, {}))
      BY <1>7 DEF Update
    <2> QED
      BY <1>3, <1>4, <2>2, <2>3, CommitLog
  <1>8. ASSUME NEW d \in Docs, Delete(d) PROVE LogInv'
    <2>1. message[d].change # 0
      BY <1>2, <1>8 DEF Delete
    <2>2. Absent.change = 0
      BY DEF Absent
    <2>3. \A k \in DOMAIN past : Fits(message[d], Absent,
                LogEntry({}, {}, {<<message[d].thread, d>>}), past[k][d], d)
      BY <2>1, <2>2 DEF Fits
    <2>4. Commit(d, Absent, LogEntry({}, {}, {<<message[d].thread, d>>}))
      BY <1>8 DEF Delete
    <2> QED
      BY <1>3, <2>3, <2>4, CommitLog
  <1> QED
    BY <1>5, <1>6, <1>7, <1>8 DEF Write

\* A truncation takes entries from the log, not the last; the ids behind which
\* nothing is missing still have all of their entries.
LEMMA TruncateLog ==
    ASSUME TypeOK, TypeOK', LogInv, Truncate \/ MarkTruncated
    PROVE  LogInv'
  <1>1. /\ Len(log) \in Nat /\ DOMAIN log = 1..Len(log)
        /\ UNCHANGED <<message, past>>
    BY DEF TypeOK, StoreOK, Truncate, MarkTruncated
  <1>2. /\ DOMAIN log' = DOMAIN log
        /\ \A k \in DOMAIN log : log'[k] \in {log[k], Gone, Truncated}
        /\ Len(log) > 0 => log'[Len(log)] \in {log[Len(log)], Truncated}
    <2>1. CASE Truncate
      <3> DEFINE first == Min({k \in Kept : Cardinality({l \in Kept : l > k}) <= MaxHistory})
      <3>1. first \in DOMAIN log
        BY <2>1, FirstKept DEF Truncate
      <3>2. log' = [k \in DOMAIN log |-> IF k < first THEN Gone ELSE log[k]]
        BY <2>1 DEF Truncate
      <3> HIDE DEF first
      <3> QED
        BY <1>1, <3>1, <3>2
    <2>2. CASE MarkTruncated
      BY <1>1, <2>2 DEF MarkTruncated, TypeOK, StoreOK
    <2> QED
      BY <2>1, <2>2
  <1>3. Len(log') = Len(log)
    <2>1. Len(log') \in Nat /\ DOMAIN log' = 1..Len(log')
      BY DEF TypeOK, StoreOK
    <2> QED
      BY <1>1, <1>2, <2>1
  <1>4. ASSUME NEW id \in 0..Len(log), Complete(id)'
        PROVE  Complete(id) /\ NetChanges(id)' = NetChanges(id)
    <2>1. \A k \in 1..Len(log) : k > id => log'[k] = log[k] /\ log[k] \notin {Gone, Truncated}
      BY <1>1, <1>2, <1>3, <1>4 DEF Complete
    <2>2. NetUpTo(log, id)[Len(log)] = NetUpTo(log', id)[Len(log')]
      <3>1. /\ Len(log) \in Nat /\ Len(log') = Len(log) /\ id \in Nat
            /\ \A k \in 1..Len(log) : k > id => log[k] = log'[k]
        BY <1>1, <1>3, <2>1
      <3> QED
        BY <3>1, NetKept, Zenon
    <2>3. Complete(id)
      BY <1>1, <2>1 DEF Complete
    <2> QED
      BY <1>1, <1>3, <2>2, <2>3 DEF NetChanges
  <1>5. ASSUME NEW id \in 0..Len(log), Complete(id)', NEW d \in Docs
        PROVE  NetRight(id, d)'
    <2>1. NetRight(id, d)
      BY <1>4, <1>5 DEF LogInv
    <2> QED
      BY <1>1, <1>4, <1>5, <2>1 DEF NetRight
  <1>6. Len(log) > 0 => log'[Len(log)] # Gone
    <2>1. Gone # Truncated
      <3>1. Gone.kind = "gone" /\ Truncated.kind = "truncated"
        BY DEF Gone, Truncated
      <3> QED
        BY <3>1
    <2> QED
      BY <1>2, <2>1 DEF LogInv
  <1> QED
    BY <1>1, <1>3, <1>5, <1>6 DEF LogInv

\* So every step keeps the log.
LEMMA StepLog ==
    /\ Init => LogInv
    /\ TypeOK /\ LogInv /\ [Next]_vars => LogInv'
  <1>1. ASSUME Init PROVE LogInv
    <2>1. Len(log) = 0 /\ \A d \in Docs : message[d] = Absent /\ Absent.change = 0
      BY <1>1 DEF Init, Absent
    <2>2. \A d \in Docs : Versions[d] = 0 /\ past[1] = Versions /\ Len(past) = 1
      BY <1>1, <2>1 DEF Init, Versions
    <2>3. NetChanges(0) = NoNet
      <3>1. Len(log) \in Nat /\ 0 \in Nat /\ 0 \in 0..Len(log) /\ 0 <= 0
        BY <2>1
      <3>2. NetUpTo(log, 0)[0] = NoNet
        BY <3>1, NetBefore, Zenon
      <3> QED
        BY <2>1, <3>2 DEF NetChanges
    <2>4. ASSUME NEW d \in Docs PROVE NetRight(0, d)
      <3>1. VersionsSince(past, 0, d) = {0}
        BY <2>2 DEF VersionsSince
      <3>2. past[0 + 1][d] = 0 /\ message[d].change = 0
        BY <2>1, <2>2
      <3>3. DocNet(Of(NoNet.ins, d), Of(NoNet.upd, d), Of(NoNet.del, d), message[d],
                   message[d].change, {message[d].change}, d)
        BY NothingYet
      <3> QED
        BY <2>3, <3>1, <3>2, <3>3 DEF NetRight
    <2>5. \A id \in 0..Len(log) : id = 0
      BY <2>1
    <2> QED
      BY <2>1, <2>2, <2>4, <2>5 DEF LogInv
  <1>2. ASSUME TypeOK, LogInv, [Next]_vars PROVE LogInv'
    <2>1. TypeOK'
      BY <1>2, CacheTyped
    <2>2. CASE Write
      BY <1>2, <2>1, <2>2, WriteLog
    <2>3. CASE Truncate \/ MarkTruncated
      BY <1>2, <2>1, <2>3, TruncateLog
    <2>4. CASE UNCHANGED <<message, log, past>>
      <3>1. /\ message' = message /\ log' = log /\ past' = past
        BY <2>4
      <3>2. \A id : NetChanges(id)' = NetChanges(id)
        BY <3>1, Zenon DEF NetChanges
      <3>3. \A id : Complete(id)' = Complete(id)
        BY <3>1, Zenon DEF Complete
      <3>4. \A id, d : NetRight(id, d) => NetRight(id, d)'
        BY <3>1, <3>2, Zenon DEF NetRight
      <3>5. \A id \in 0..Len(log) : Complete(id)' => \A d \in Docs : NetRight(id, d)'
        BY <1>2, <3>3, <3>4, Zenon DEF LogInv
      <3>6. \A id \in 0..Len(log') : Complete(id)' => \A d \in Docs : NetRight(id, d)'
        BY <3>1, <3>5, Zenon
      <3> QED
        <4>1. \A d \in Docs : past'[1][d] = 0
          BY <1>2, <3>1 DEF LogInv
        <4>2. Len(log') > 0 => log'[Len(log')] # Gone
          BY <1>2, <3>1 DEF LogInv
        <4>3. \A d \in Docs : message'[d].change = 0 => message'[d] = Absent
          BY <1>2, <3>1 DEF LogInv
        <4> QED
          BY <3>6, <4>1, <4>2, <4>3, Zenon DEF LogInv
    <2>5. Write \/ Truncate \/ MarkTruncated \/ UNCHANGED <<message, log, past>>
      <3>1. ASSUME NEW r \in Readers, Read(r) PROVE UNCHANGED <<message, log, past>>
        <4>1. CASE Hit(r) \/ Miss(r) \/ Build(r) \/ Scan(r)
          BY <4>1 DEF Hit, Miss, Build, Scan, Begin, store
        <4>2. CASE ReadChanges(r) \/ Acquire(r) \/ UpdateItems(r) \/ Revise(r)
          BY <4>2, <3>1 DEF Read, ReadChanges, Acquire, UpdateItems, Revise, store
        <4>3. CASE Publish(r) \/ Return(r) \/ Fail(r)
          BY <3>1, <4>3 DEF Read, Publish, Return, Fail, store
        <4> QED
          BY <3>1, <4>1, <4>2, <4>3, Zenon DEF Read
      <3>2. CASE Evict \/ UNCHANGED vars
        BY <3>2 DEF Evict, vars, store
      <3> QED
        BY <1>2, <3>1, <3>2, Zenon DEF Next
    <2> QED
      BY <2>2, <2>3, <2>4, <2>5
  <1> QED
    BY <1>1, <1>2
-----------------------------------------------------------------------------
(* What a call returns is current                                          *)

\* An entry has, of each message, a version it had since the entry's id, and none
\* that was absent then; unless it was built ahead of its id, when it may have one
\* that was.  p are the versions after each change, a says that some are ahead.
EntryCurrent(p, a, e) ==
    /\ e.id \in 0..Len(p) - 1
    /\ \A d \in Docs :
          \/ /\ e.items[d] \in VersionsSince(p, e.id, d)
             /\ p[e.id + 1][d] = 0 => e.items[d] = 0
          \/ a /\ e.items[d] # 0 /\ p[e.id + 1][d] = 0

\* The changes c were read for an entry of change id, by a call that began after
\* change t.  What is to be read was there at c.to, what else has changed was not,
\* and the rest was as it had been at id, or has come and gone since.
ChangesRight(p, a, c, id, t) ==
    /\ c.to \in 0..Len(p) - 1 /\ id <= c.to /\ t <= c.to
    /\ \A d \in Docs :
          IF d \in c.read THEN p[c.to + 1][d] # 0
          ELSE IF d \in c.docs THEN p[c.to + 1][d] = 0
          ELSE \/ \A k \in id + 1..c.to + 1 : p[k][d] = p[c.to + 1][d]
               \/ p[c.to + 1][d] = 0 /\ (a \/ p[id + 1][d] = 0)

\* What a call that began after change t returns was so since.
Shown(p, a, items, t) ==
    \A d \in Docs :
        \/ items[d] \in VersionsSince(p, t, d)
        \/ a /\ items[d] # 0 /\ 0 \in VersionsSince(p, t, d)

\* A reader at step s has entry e and changes c; its call began after change t.
ReaderRight(p, a, s, e, c, t) ==
    /\ t \in 0..Len(p) - 1
    /\ s \in {"scan", "revise", "publish"} => e.id \in 0..Len(p) - 1 /\ t <= e.id
    /\ s \in {"changes", "lock", "update", "revise", "publish"} => EntryCurrent(p, a, e)
    /\ s \in {"lock", "update"} => ChangesRight(p, a, c, e.id, t)
    /\ s = "return" => Shown(p, a, e.items, t)

ReadsInv ==
    skipped \/
        /\ EntryCurrent(past, ahead, cache)
        /\ \A r \in Readers :
              ReaderRight(past, ahead, pc[r], got[r], changed[r], since[r])

\* Versions are added, and none is changed.
Grows(p, q) ==
    /\ Len(p) \in Nat \ {0} /\ Len(q) \in Nat /\ Len(p) <= Len(q)
    /\ \A k \in 1..Len(p) : q[k] = p[k]

\* The versions a message had since a change, it still had when there are more.
LEMMA VersionsGrow ==
    ASSUME NEW p, NEW q, Grows(p, q), NEW i \in Nat, NEW d
    PROVE  VersionsSince(p, i, d) \subseteq VersionsSince(q, i, d)
  <1> SUFFICES ASSUME NEW k \in i + 1..Len(p)
               PROVE  p[k][d] \in VersionsSince(q, i, d)
    BY DEF VersionsSince
  <1>1. k \in i + 1..Len(q) /\ q[k] = p[k]
    BY DEF Grows
  <1> QED
    BY <1>1 DEF VersionsSince

\* Of two changes, the versions since the later are some of those since the earlier.
LEMMA VersionsLater ==
    ASSUME NEW p, Len(p) \in Nat, NEW i \in Nat, NEW j \in Nat, i <= j, NEW d
    PROVE  VersionsSince(p, j, d) \subseteq VersionsSince(p, i, d)
  <1> SUFFICES ASSUME NEW k \in j + 1..Len(p)
               PROVE  p[k][d] \in VersionsSince(p, i, d)
    BY DEF VersionsSince
  <1>1. k \in i + 1..Len(p)
    OBVIOUS
  <1> QED
    BY <1>1 DEF VersionsSince

\* The version at a change is one of those since.
LEMMA VersionAt ==
    ASSUME NEW p, Len(p) \in Nat, NEW i \in 0..Len(p) - 1, NEW k \in i + 1..Len(p), NEW d
    PROVE  p[k][d] \in VersionsSince(p, i, d)
  BY DEF VersionsSince

\* What is true of an entry remains true when the account changes ...
LEMMA EntryGrows ==
    ASSUME NEW p, NEW q, Grows(p, q), NEW a \in BOOLEAN, NEW b \in BOOLEAN, a => b,
           NEW e, EntryCurrent(p, a, e)
    PROVE  EntryCurrent(q, b, e)
  <1>1. /\ e.id \in Nat /\ e.id \in 0..Len(q) - 1 /\ e.id + 1 \in 1..Len(p)
    BY DEF Grows, EntryCurrent
  <1>2. q[e.id + 1] = p[e.id + 1]
    BY <1>1 DEF Grows
  <1>3. \A d \in Docs : VersionsSince(p, e.id, d) \subseteq VersionsSince(q, e.id, d)
    BY <1>1, VersionsGrow
  <1> QED
    BY <1>1, <1>2, <1>3 DEF EntryCurrent

\* ... and so does what is true of a reader.
LEMMA ReaderGrows ==
    ASSUME NEW p, NEW q, Grows(p, q), NEW a \in BOOLEAN, NEW b \in BOOLEAN, a => b,
           NEW s, NEW e, NEW c, NEW t, ReaderRight(p, a, s, e, c, t)
    PROVE  ReaderRight(q, b, s, e, c, t)
  <1>1. t \in 0..Len(p) - 1 /\ t \in 0..Len(q) - 1 /\ t \in Nat
    BY DEF ReaderRight, Grows
  <1>2. s \in {"scan", "revise", "publish"} => e.id \in 0..Len(q) - 1 /\ t <= e.id
    BY DEF ReaderRight, Grows
  <1>3. EntryCurrent(p, a, e) => EntryCurrent(q, b, e)
    BY EntryGrows
  <1>4. ASSUME ChangesRight(p, a, c, e.id, t), e.id \in Nat
        PROVE  ChangesRight(q, b, c, e.id, t)
    <2>1. /\ c.to \in 0..Len(q) - 1 /\ c.to + 1 \in 1..Len(p) /\ e.id <= c.to
          /\ e.id + 1 \in 1..Len(p) /\ t <= c.to
      BY <1>4 DEF ChangesRight, Grows
    <2>2. \A k \in e.id + 1..c.to + 1 : k \in 1..Len(p)
      BY <1>4, <2>1 DEF Grows
    <2>3. /\ q[c.to + 1] = p[c.to + 1] /\ q[e.id + 1] = p[e.id + 1]
          /\ \A k \in e.id + 1..c.to + 1 : q[k] = p[k]
      BY <2>1, <2>2 DEF Grows
    <2> QED
      BY <1>4, <2>1, <2>3 DEF ChangesRight
  <1>5. Shown(p, a, e.items, t) => Shown(q, b, e.items, t)
    <2>1. \A d \in Docs : VersionsSince(p, t, d) \subseteq VersionsSince(q, t, d)
      BY <1>1, VersionsGrow
    <2> QED
      BY <2>1 DEF Shown
  <1>6. EntryCurrent(p, a, e) => e.id \in Nat
    BY DEF EntryCurrent
  <1> QED
    BY <1>1, <1>2, <1>3, <1>4, <1>5, <1>6 DEF ReaderRight

\* No step takes versions away.
LEMMA PastGrows ==
    ASSUME TypeOK, TypeOK', [Next]_vars
    PROVE  Grows(past, past')
  <1>1. Len(past) \in Nat \ {0} /\ DOMAIN past = 1..Len(past) /\ Len(past') \in Nat
    BY DEF TypeOK, StoreOK
  <1>2. CASE Write
    <2>1. PICK v : past' = Append(past, v)
      BY <1>2 DEF Write, Insert, Update, Reassign, Delete, Commit
    <2>2. past \in Seq(Items)
      BY DEF TypeOK, StoreOK
    <2>3. Len(past') = Len(past) + 1 /\ \A k \in 1..Len(past) : past'[k] = past[k]
      BY <2>1, <2>2
    <2> QED
      BY <1>1, <2>3 DEF Grows
  <1>3. CASE UNCHANGED past
    BY <1>1, <1>3 DEF Grows
  <1>4. Write \/ UNCHANGED past
    BY DEF Next, Read, vars, store, Evict, Hit, Miss, Build, Scan, ReadChanges, Acquire,
           UpdateItems, Revise, Publish, Return, Fail, Truncate, MarkTruncated
  <1> QED
    BY <1>2, <1>3, <1>4

\* The last change id that Build reads, and the one that ReadChanges reads to, is
\* that of the last change.
LEMMA LastIsKept ==
    ASSUME TypeOK, LogInv
    PROVE  /\ Len(log) \in Nat
           /\ (IF Kept = {} THEN 0 ELSE Max(Kept)) = Len(log)
           /\ \A id \in 0..Len(log) : Max(Since(id) \cup {id}) = Len(log)
  <1>1. /\ Len(log) \in Nat /\ DOMAIN log = 1..Len(log)
        /\ Len(log) > 0 => Len(log) \in Kept
    BY DEF TypeOK, StoreOK, LogInv, Kept
  <1>2. Kept \subseteq 0..Len(log)
    BY <1>1, KeptIds
  <1>3. (IF Kept = {} THEN 0 ELSE Max(Kept)) = Len(log)
    <2>1. CASE Kept = {}
      BY <1>1, <2>1
    <2>2. CASE Kept # {}
      <3>1. Max(Kept) \in Kept /\ \A x \in Kept : x <= Max(Kept)
        BY <1>1, <1>2, <2>2, BoundedMax
      <3>2. Max(Kept) \in 1..Len(log)
        BY <1>1, <3>1, KeptIds
      <3> QED
        BY <1>1, <2>2, <3>1, <3>2
    <2> QED
      BY <2>1, <2>2
  <1>5. ASSUME NEW id \in 0..Len(log) PROVE Max(Since(id) \cup {id}) = Len(log)
    <2> DEFINE S == Since(id) \cup {id}
    <2>1. S \subseteq 0..Len(log) /\ S # {} /\ Len(log) \in S
      <3>1. S \subseteq 0..Len(log) /\ S # {}
        BY <1>1, <1>2 DEF Since
      <3>2. Len(log) > id => Len(log) \in Since(id)
        BY <1>1 DEF Since
      <3>3. id = Len(log) \/ Len(log) > id
        <4>1. PICK n \in Nat : n = Len(log)
          BY <1>1
        <4>2. id \in 0..n => id = n \/ n > id
          OBVIOUS
        <4> QED
          BY <4>1, <4>2
      <3>4. Len(log) \in S
        BY <3>2, <3>3
      <3> QED
        BY <3>1, <3>4
    <2> HIDE DEF S
    <2>2. Max(S) \in S /\ \A x \in S : x <= Max(S)
      BY <1>1, <2>1, BoundedMax
    <2>3. Max(S) \in 0..Len(log) /\ Len(log) <= Max(S)
      BY <2>1, <2>2
    <2> QED
      BY <1>1, <2>3 DEF S
  <1> QED
    BY <1>1, <1>3, <1>5

\* The net changes name what there is to be read, and what is gone; what they do not
\* name has not changed, or has come and gone.
NetSays(net, m, before, versions, d) ==
    IF d \in ToRead(net) THEN m.change # 0
    ELSE IF d \in DocsOf(net) THEN m.change = 0
    ELSE \/ m.change # 0 /\ versions = {before}
         \/ m.change = 0 /\ before = 0

LEMMA NetNames ==
    ASSUME NEW net, NEW m, NEW before, NEW versions, NEW d,
           DocNet(Of(net.ins, d), Of(net.upd, d), Of(net.del, d), m, before, versions, d)
    PROVE  NetSays(net, m, before, versions, d)
  <1> DEFINE I == Of(net.ins, d)
             U == Of(net.upd, d)
             D == Of(net.del, d)
  <1>1. d \in DocsOf(net) <=> I # {} \/ U # {} \/ D # {}
    BY DEF DocsOf, Of
  <1>2. d \in ToRead(net) <=> d \in DocsOf(net) /\ (I # {} \/ U # {} \/ Cardinality(D) > 1)
    <2>1. (\E i \in net.ins \cup net.upd : i[2] = d) <=> I # {} \/ U # {}
      BY DEF Of
    <2>2. D = {i \in net.del : i[2] = d}
      BY DEF Of
    <2> QED
      BY <2>1, <2>2, Zenon DEF ToRead
  <1>3. DocNet(I, U, D, m, before, versions, d)
    OBVIOUS
  <1> HIDE DEF I, U, D
  <1>4. D = {} \/ \E i : D = {i}
    BY <1>3 DEF DocNet
  <1>5. ~ (Cardinality(D) > 1)
    <2>1. CASE D = {}
      <3>1. Cardinality(D) = 0
        BY <2>1, FS_EmptySet
      <3> QED
        BY <3>1
    <2>2. CASE \E i : D = {i}
      <3>1. Cardinality(D) = 1
        BY <2>2, FS_Singleton, Zenon
      <3> QED
        BY <3>1
    <2> QED
      BY <1>4, <2>1, <2>2
  <1>6. CASE d \in ToRead(net)
    BY <1>2, <1>3, <1>5, <1>6 DEF DocNet, NetSays
  <1>7. CASE d \notin ToRead(net) /\ d \in DocsOf(net)
    <2>1. I = {} /\ U = {} /\ D # {}
      BY <1>1, <1>2, <1>7
    <2> QED
      BY <1>3, <1>7, <2>1 DEF DocNet, NetSays
  <1>8. CASE d \notin DocsOf(net)
    <2>1. I = {} /\ U = {} /\ D = {} /\ d \notin ToRead(net)
      BY <1>1, <1>2, <1>8
    <2>2. \A i : D # {i}
      BY <2>1
    <2> QED
      BY <1>3, <1>8, <2>1, <2>2 DEF DocNet, NetSays
  <1> QED
    BY <1>6, <1>7, <1>8

\* An entry shows what was so since any change that its id is not older than.
LEMMA CurrentShown ==
    ASSUME NEW p, Len(p) \in Nat, NEW a \in BOOLEAN, NEW e, EntryCurrent(p, a, e),
           NEW t \in Nat, t <= e.id
    PROVE  Shown(p, a, e.items, t)
  <1>1. /\ e.id \in Nat /\ e.id \in 0..Len(p) - 1 /\ t \in 0..Len(p) - 1
        /\ e.id + 1 \in t + 1..Len(p)
    BY DEF EntryCurrent
  <1>2. \A d \in Docs : VersionsSince(p, e.id, d) \subseteq VersionsSince(p, t, d)
    BY <1>1, VersionsLater
  <1>3. \A d \in Docs : p[e.id + 1][d] \in VersionsSince(p, t, d)
    BY <1>1, VersionAt
  <1> QED
    BY <1>2, <1>3 DEF EntryCurrent, Shown

\* f is entry e with the changes c: what they read as it is now, the rest of what they
\* name gone.
Applied(p, e, c, f) ==
    /\ f.id = c.to
    /\ \A d \in Docs : f.items[d] = IF d \in c.read THEN p[Len(p)][d]
                                    ELSE IF d \in c.docs THEN 0 ELSE e.items[d]

\* update_email_cache: an entry to which changes read since its id are applied is
\* current at the last of them.
LEMMA ChangesApplied ==
    ASSUME NEW p, Len(p) \in Nat, NEW a \in BOOLEAN, NEW e, EntryCurrent(p, a, e),
           NEW c, NEW t, ChangesRight(p, a, c, e.id, t), NEW f, Applied(p, e, c, f)
    PROVE  EntryCurrent(p, a, f)
  <1>0. /\ f.id = c.to
        /\ \A d \in Docs : f.items[d] = IF d \in c.read THEN p[Len(p)][d]
                                        ELSE IF d \in c.docs THEN 0 ELSE e.items[d]
    BY DEF Applied
  <1>1. /\ e.id \in Nat /\ e.id \in 0..Len(p) - 1 /\ c.to \in 0..Len(p) - 1
        /\ e.id <= c.to /\ c.to \in Nat /\ e.id + 1 \in e.id + 1..c.to + 1
        /\ c.to + 1 \in c.to + 1..Len(p) /\ Len(p) \in c.to + 1..Len(p)
    BY DEF EntryCurrent, ChangesRight
  <1>2. \A d \in Docs : /\ p[c.to + 1][d] \in VersionsSince(p, c.to, d)
                        /\ p[Len(p)][d] \in VersionsSince(p, c.to, d)
    BY <1>1, VersionAt
  <1>3. ASSUME NEW d \in Docs
        PROVE  \/ /\ f.items[d] \in VersionsSince(p, c.to, d)
                  /\ p[c.to + 1][d] = 0 => f.items[d] = 0
               \/ a /\ f.items[d] # 0 /\ p[c.to + 1][d] = 0
    <2>1. CASE d \in c.read
      BY <1>0, <1>2, <2>1 DEF ChangesRight
    <2>2. CASE d \notin c.read /\ d \in c.docs
      <3>1. f.items[d] = 0 /\ p[c.to + 1][d] = 0
        BY <1>0, <2>2 DEF ChangesRight
      <3> QED
        BY <1>2, <3>1
    <2>3. CASE d \notin c.read /\ d \notin c.docs
      <3>1. f.items[d] = e.items[d]
        BY <1>0, <2>3
      <3>2. \/ \A k \in e.id + 1..c.to + 1 : p[k][d] = p[c.to + 1][d]
            \/ p[c.to + 1][d] = 0 /\ (a \/ p[e.id + 1][d] = 0)
        BY <2>3 DEF ChangesRight
      <3>3. \/ /\ e.items[d] \in VersionsSince(p, e.id, d)
               /\ p[e.id + 1][d] = 0 => e.items[d] = 0
            \/ a /\ e.items[d] # 0 /\ p[e.id + 1][d] = 0
        BY DEF EntryCurrent
      <3>4. CASE p[c.to + 1][d] = 0 /\ (a \/ p[e.id + 1][d] = 0)
        <4>1. e.items[d] = 0 \/ a
          BY <3>3, <3>4
        <4>2. 0 \in VersionsSince(p, c.to, d)
          BY <1>2, <3>4
        <4> QED
          BY <3>1, <3>4, <4>1, <4>2
      <3>5. CASE \A k \in e.id + 1..c.to + 1 : p[k][d] = p[c.to + 1][d]
        <4>1. p[e.id + 1][d] = p[c.to + 1][d]
          BY <1>1, <3>5
        <4>2. ASSUME e.items[d] \in VersionsSince(p, e.id, d)
              PROVE  e.items[d] \in VersionsSince(p, c.to, d)
          <5>1. PICK k \in e.id + 1..Len(p) : e.items[d] = p[k][d]
            BY <4>2 DEF VersionsSince
          <5>2. k \in e.id + 1..c.to + 1 \/ k \in c.to + 1..Len(p)
            BY <1>1
          <5>3. k \in c.to + 1..Len(p) => p[k][d] \in VersionsSince(p, c.to, d)
            BY <1>1, VersionAt
          <5> QED
            BY <1>2, <3>5, <5>1, <5>2, <5>3
        <4> QED
          BY <3>1, <3>3, <4>1, <4>2
      <3> QED
        BY <3>2, <3>4, <3>5
    <2> QED
      BY <2>1, <2>2, <2>3
  <1> QED
    BY <1>0, <1>1, <1>3 DEF EntryCurrent

\* full_cache_build: the messages as they are now are current at a change, unless
\* they are ahead of it.
LEMMA BuiltCurrent ==
    ASSUME NEW p, Len(p) \in Nat, NEW a \in BOOLEAN, NEW e, e.id \in 0..Len(p) - 1,
           \A d \in Docs : e.items[d] = p[Len(p)][d], e.id + 1 = Len(p) \/ a
    PROVE  EntryCurrent(p, a, e)
  <1>1. Len(p) \in e.id + 1..Len(p)
    OBVIOUS
  <1>2. \A d \in Docs : p[Len(p)][d] \in VersionsSince(p, e.id, d)
    BY <1>1, VersionAt
  <1> QED
    BY <1>2 DEF EntryCurrent

\* Store::changes: the net changes since an id behind which nothing is missing.
LEMMA ChangesRead ==
    ASSUME TypeOK, LogInv, NEW id \in 0..Len(log), Complete(id),
           NEW t \in 0..Len(log), NEW c, c.to = Len(log),
           c.docs = DocsOf(NetChanges(id)), c.read = ToRead(NetChanges(id)), NEW a
    PROVE  ChangesRight(past, a, c, id, t)
  <1>1. Len(log) \in Nat /\ Len(past) = Len(log) + 1 /\ past[Len(log) + 1] = Versions
    BY DEF TypeOK, StoreOK
  <1>2. ASSUME NEW d \in Docs
        PROVE  IF d \in c.read THEN past[c.to + 1][d] # 0
               ELSE IF d \in c.docs THEN past[c.to + 1][d] = 0
               ELSE \/ \A k \in id + 1..c.to + 1 : past[k][d] = past[c.to + 1][d]
                    \/ past[c.to + 1][d] = 0 /\ (a \/ past[id + 1][d] = 0)
    <2>1. NetRight(id, d)
      BY DEF LogInv
    <2>2. IF d \in c.read THEN message[d].change # 0
          ELSE IF d \in c.docs THEN message[d].change = 0
          ELSE \/ message[d].change # 0 /\ VersionsSince(past, id, d) = {past[id + 1][d]}
               \/ message[d].change = 0 /\ past[id + 1][d] = 0
      <3>1. PICK net, m, before, versions :
                /\ net = NetChanges(id) /\ m = message[d] /\ before = past[id + 1][d]
                /\ versions = VersionsSince(past, id, d)
        OBVIOUS
      <3>2. DocNet(Of(net.ins, d), Of(net.upd, d), Of(net.del, d), m, before, versions, d)
        BY <2>1, <3>1, Zenon DEF NetRight
      <3>3. NetSays(net, m, before, versions, d)
        BY <3>2, NetNames, Zenon
      <3>4. c.read = ToRead(net) /\ c.docs = DocsOf(net)
        BY <3>1, Zenon
      <3>5. QED
        BY <3>1, <3>3, <3>4, Zenon DEF NetSays
    <2>3. past[c.to + 1][d] = message[d].change
      BY <1>1 DEF Versions
    <2>4. ASSUME VersionsSince(past, id, d) = {past[id + 1][d]}
          PROVE  \A k \in id + 1..c.to + 1 : past[k][d] = past[c.to + 1][d]
      <3>1. \A k \in id + 1..Len(past) : past[k][d] \in VersionsSince(past, id, d)
        BY DEF VersionsSince
      <3>2. \A k \in id + 1..Len(past) : past[k][d] = past[id + 1][d]
        BY <2>4, <3>1
      <3>3. c.to + 1 = Len(past) /\ c.to + 1 \in id + 1..Len(past)
        BY <1>1
      <3> QED
        BY <3>2, <3>3
    <2> QED
      BY <2>2, <2>3, <2>4
  <1>3. c.to \in 0..Len(past) - 1 /\ id <= c.to /\ t <= c.to
    BY <1>1
  <1> QED
    BY <1>2, <1>3 DEF ChangesRight

\* After a step of r, the cached entry is current, and r is right.
StepRight(r) ==
    /\ EntryCurrent(past, ahead', cache')
    /\ ReaderRight(past, ahead', pc'[r], got'[r], changed'[r], since'[r])

\* The numbers that the steps of a reader go by.
LEMMA ReadNumbers ==
    ASSUME TypeOK
    PROVE  /\ Len(log) \in Nat /\ DOMAIN log = 1..Len(log) /\ Len(past) = Len(log) + 1
           /\ Len(past) \in Nat \ {0} /\ ahead \in BOOLEAN
           /\ past[Len(past)] = Versions
  BY DEF TypeOK, StoreOK

\* A call begins with the cached entry ...
LEMMA HitRight ==
    ASSUME TypeOK, ReadsInv, ~skipped, NEW r \in Readers, Hit(r)
    PROVE  StepRight(r)
  <1>1. /\ pc'[r] = "changes" /\ got'[r] = cache /\ since'[r] = Len(log)
        /\ ahead' = ahead /\ cache' = cache
    BY DEF Hit, Begin, Goto, history, TypeOK, LockOK, EntryOK
  <1>2. EntryCurrent(past, ahead, cache)
    BY DEF ReadsInv
  <1>3. Len(log) \in 0..Len(past) - 1
    BY ReadNumbers
  <1> QED
    BY <1>1, <1>2, <1>3 DEF StepRight, ReaderRight

\* ... or with the guard, and builds one: Build takes the last change id ...
LEMMA BuildRight ==
    ASSUME TypeOK, LogInv, ReadsInv, ~skipped, NEW r \in Readers, Miss(r) \/ Build(r)
    PROVE  StepRight(r)
  <1>1. EntryCurrent(past, ahead, cache)
    BY DEF ReadsInv
  <1>2. Len(log) \in 0..Len(past) - 1
    BY ReadNumbers
  <1>3. CASE Miss(r)
    <2>1. /\ pc'[r] = "build" /\ since'[r] = Len(log)
          /\ ahead' = ahead /\ cache' = cache
      BY <1>3 DEF Miss, Begin, Goto, history, TypeOK, LockOK
    <2> QED
      BY <1>1, <1>2, <2>1 DEF StepRight, ReaderRight
  <1>4. CASE Build(r)
    <2> DEFINE last == IF Kept = {} THEN 0 ELSE Max(Kept)
    <2>1. last = Len(log)
      BY LastIsKept
    <2>2. got' = [got EXCEPT ![r].id = last]
      BY <1>4 DEF Build
    <2> HIDE DEF last
    <2>3. /\ pc'[r] = "scan" /\ since'[r] = since[r] /\ got'[r].id = last
          /\ ahead' = ahead /\ cache' = cache
      BY <1>4, <2>2 DEF Build, Goto, history, TypeOK, LockOK, EntryOK
    <2>4. since[r] \in 0..Len(past) - 1
      BY DEF ReadsInv, ReaderRight
    <2>5. since[r] <= Len(log)
      BY <2>4, ReadNumbers
    <2> QED
      BY <1>1, <1>2, <2>1, <2>3, <2>4, <2>5 DEF StepRight, ReaderRight
  <1> QED
    BY <1>3, <1>4

\* ... and Scan the messages.
LEMMA ScanRight ==
    ASSUME TypeOK, LogInv, ReadsInv, ~skipped, NEW r \in Readers, Scan(r)
    PROVE  StepRight(r)
  <1>1. EntryCurrent(past, ahead, cache) /\ since[r] \in 0..Len(past) - 1
    BY DEF ReadsInv, ReaderRight
  <1>2. got[r].id \in 0..Len(past) - 1 /\ since[r] <= got[r].id
    BY DEF ReadsInv, ReaderRight, Scan
  <1>3. /\ pc'[r] = "revise" /\ since'[r] = since[r] /\ cache' = cache
        /\ got'[r].id = got[r].id /\ got'[r].items = Versions
        /\ changed'[r] = changed[r]
        /\ ahead' = (ahead \/ \E k \in Kept : k > got[r].id)
    BY DEF Scan, Goto, TypeOK, LockOK, EntryOK
  <1>4. got[r].id + 1 = Len(past) \/ ahead'
    <2>1. got[r].id = Len(log) \/ (Len(log) > got[r].id /\ Len(log) > 0)
      <3>1. PICK n \in Nat : n = Len(log)
        BY ReadNumbers
      <3>2. got[r].id \in 0..n
        BY <1>2, <3>1, ReadNumbers
      <3> QED
        BY <3>1, <3>2
    <2>2. Len(log) > 0 => Len(log) \in Kept
      BY ReadNumbers DEF LogInv, Kept
    <2> QED
      BY <1>3, <2>1, <2>2, ReadNumbers
  <1>5. ahead' \in BOOLEAN /\ (ahead => ahead')
    BY <1>3, ReadNumbers
  <1>6. EntryCurrent(past, ahead', got'[r])
    <2>1. /\ got'[r].id \in 0..Len(past) - 1 /\ (got'[r].id + 1 = Len(past) \/ ahead')
          /\ \A d \in Docs : got'[r].items[d] = past[Len(past)][d]
      BY <1>2, <1>3, <1>4, ReadNumbers
    <2> QED
      BY <1>5, <2>1, BuiltCurrent, ReadNumbers
  <1>7. EntryCurrent(past, ahead', cache')
    BY <1>1, <1>3, <1>5 DEF EntryCurrent
  <1> QED
    BY <1>1, <1>2, <1>3, <1>6, <1>7 DEF StepRight, ReaderRight

\* ReadChanges: the changes are those since the entry, to the last one; without any
\* the entry is returned.
LEMMA ReadChangesRight ==
    ASSUME TypeOK, LogInv, ReadsInv, ~skipped', NEW r \in Readers, ReadChanges(r)
    PROVE  StepRight(r)
  <1>1. /\ ~skipped /\ ahead' = ahead /\ cache' = cache /\ got'[r] = got[r]
        /\ since'[r] = since[r]
        /\ IsTruncated(got[r].id) \/ ~ \E k \in DOMAIN log : k > got[r].id /\ log[k] = Gone
    BY DEF ReadChanges
  <1>2. /\ EntryCurrent(past, ahead, cache) /\ since[r] \in 0..Len(past) - 1
        /\ EntryCurrent(past, ahead, got[r])
    BY <1>1 DEF ReadsInv, ReaderRight, ReadChanges
  <1>3. got[r].id \in 0..Len(log)
    BY <1>2, ReadNumbers DEF EntryCurrent
  <1>4. CASE IsTruncated(got[r].id)
    <2>1. pc'[r] = "build"
      BY <1>4 DEF ReadChanges, Goto, TypeOK, LockOK
    <2> QED
      BY <1>1, <1>2, <2>1 DEF StepRight, ReaderRight
  <1>5. CASE ~IsTruncated(got[r].id)
    <2> DEFINE net == NetChanges(got[r].id)
               c == [docs |-> DocsOf(net), read |-> ToRead(net),
                     to |-> Max(Since(got[r].id) \cup {got[r].id})]
    <2>1. /\ changed' = [changed EXCEPT ![r] = c]
          /\ Goto(r, IF DocsOf(net) = {} THEN "return" ELSE "lock")
      BY <1>5 DEF ReadChanges
    <2>2. changed'[r] = c /\ pc'[r] = IF DocsOf(net) = {} THEN "return" ELSE "lock"
      BY <2>1 DEF Goto, TypeOK, LockOK
    <2>3. c.docs = DocsOf(net) /\ c.read = ToRead(net)
          /\ c.to = Max(Since(got[r].id) \cup {got[r].id})
      OBVIOUS
    <2>4. Complete(got[r].id)
      BY <1>1, <1>5 DEF IsTruncated, Complete, Since, Kept
    <2> HIDE DEF net, c
    <2>5. c.to = Len(log)
      BY <1>3, <2>3, LastIsKept
    <2>6. ChangesRight(past, ahead, c, got[r].id, since[r])
      <3>1. PICK id \in 0..Len(log) : id = got[r].id
        BY <1>3
      <3>2. PICK t \in 0..Len(log) : t = since[r]
        BY <1>2, ReadNumbers
      <3>3. /\ Complete(id) /\ c.docs = DocsOf(NetChanges(id))
            /\ c.read = ToRead(NetChanges(id))
        BY <2>3, <2>4, <3>1 DEF net
      <3>4. ChangesRight(past, ahead, c, id, t)
        BY <2>5, <3>3, ChangesRead
      <3> QED
        BY <3>1, <3>2, <3>4
    <2>7. CASE DocsOf(net) = {}
      <3>1. c.docs = {} /\ c.read = {}
        BY <2>3, <2>7 DEF ToRead
      <3> DEFINE f == [id |-> c.to, items |-> got[r].items]
      <3>2. f.id = c.to /\ f.items = got[r].items
        OBVIOUS
      <3> HIDE DEF f
      <3>a. Applied(past, got[r], c, f)
        BY <3>1, <3>2 DEF Applied
      <3>3. EntryCurrent(past, ahead, f)
        BY <1>2, <2>6, <3>a, ChangesApplied, ReadNumbers
      <3>4. since[r] \in Nat /\ since[r] <= f.id
        BY <1>2, <2>6, <3>2 DEF ChangesRight
      <3>5. Shown(past, ahead, got[r].items, since[r])
        BY <3>2, <3>3, <3>4, CurrentShown, ReadNumbers
      <3> QED
        BY <1>1, <1>2, <2>2, <2>7, <3>5 DEF StepRight, ReaderRight
    <2>8. CASE DocsOf(net) # {}
      BY <1>1, <1>2, <2>2, <2>6, <2>8 DEF StepRight, ReaderRight
    <2> QED
      BY <2>7, <2>8
  <1> QED
    BY <1>4, <1>5

\* Changes that were read since an id may be applied to a later entry, but then it
\* may be ahead.
LEMMA ChangesLater ==
    ASSUME NEW p, NEW a, NEW c, NEW t, NEW i \in Nat, NEW j \in Nat, i <= j, j <= c.to,
           ChangesRight(p, a, c, i, t)
    PROVE  ChangesRight(p, TRUE, c, j, t)
  <1>1. c.to \in Nat
    BY DEF ChangesRight
  <1>2. \A k \in j + 1..c.to + 1 : k \in i + 1..c.to + 1
    BY <1>1
  <1> QED
    BY <1>2 DEF ChangesRight

\* Acquire: the entry taken instead of an older one is current, and shows what was
\* so since the call began if it has the changes.
LEMMA AcquireRight ==
    ASSUME TypeOK, ReadsInv, ~skipped', NEW r \in Readers, Acquire(r)
    PROVE  StepRight(r)
  <1> DEFINE l == got[r].lock
             base == IF lock[l].revision = got[r].id THEN got[r] ELSE Peeked(r)
             enough == lock[l].revision # got[r].id /\ base.id >= changed[r].to
  <1>1. /\ got'[r] = base /\ cache' = cache /\ changed'[r] = changed[r]
        /\ since'[r] = since[r]
    BY DEF Acquire, TypeOK, EntryOK
  <1>2. IF enough
          THEN Goto(r, "return") /\ ahead' = ahead /\ skipped' = skipped
          ELSE /\ Goto(r, "update")
               /\ ahead' = (ahead \/ base.id > got[r].id)
               /\ skipped' = (skipped \/ base.id < got[r].id)
    BY DEF Acquire, history
  <1>3. IF enough THEN pc'[r] = "return" ELSE pc'[r] = "update"
    BY <1>2 DEF Goto, TypeOK, LockOK
  <1>4. base = got[r] \/ base = cache
    BY DEF Peeked
  <1>5. ~enough => base = got[r] \/ ~ (base.id >= changed[r].to)
    OBVIOUS
  <1> HIDE DEF base, enough
  <1>6. ~skipped /\ ahead' \in BOOLEAN /\ (ahead => ahead')
    BY <1>2, ReadNumbers
  <1>7. /\ EntryCurrent(past, ahead, cache) /\ since[r] \in 0..Len(past) - 1
        /\ EntryCurrent(past, ahead, got[r])
        /\ ChangesRight(past, ahead, changed[r], got[r].id, since[r])
    BY <1>6 DEF ReadsInv, ReaderRight, Acquire
  <1>8. /\ EntryCurrent(past, ahead', cache) /\ EntryCurrent(past, ahead', base)
        /\ EntryCurrent(past, ahead, base)
    BY <1>4, <1>6, <1>7 DEF EntryCurrent
  <1>9. CASE enough
    <2>1. base.id \in Nat /\ since[r] \in Nat /\ changed[r].to \in Nat
          /\ since[r] <= changed[r].to
      BY <1>7, <1>8 DEF EntryCurrent, ChangesRight
    <2>2. since[r] <= base.id
      BY <1>9, <2>1 DEF enough
    <2>3. Shown(past, ahead', base.items, since[r])
      BY <1>6, <1>8, <2>1, <2>2, CurrentShown, ReadNumbers
    <2> QED
      BY <1>1, <1>3, <1>7, <1>8, <1>9, <2>3 DEF StepRight, ReaderRight
  <1>10. CASE ~enough
    <2>1. /\ got[r].id \in Nat /\ base.id \in Nat /\ changed[r].to \in Nat
          /\ got[r].id <= changed[r].to
      BY <1>7, <1>8 DEF EntryCurrent, ChangesRight
    <2>2. got[r].id <= base.id
      <3>1. ~ (base.id < got[r].id)
        BY <1>2, <1>10, Zenon
      <3> QED
        BY <2>1, <3>1
    <2>3. ChangesRight(past, ahead', changed[r], base.id, since[r])
      <3>1. CASE base.id = got[r].id
        BY <1>6, <1>7, <3>1 DEF ChangesRight
      <3>2. CASE base.id # got[r].id
        <4>1. ahead' = TRUE
          <5>1. base.id > got[r].id
            BY <2>1, <2>2, <3>2
          <5>2. ahead'
            BY <1>2, <1>10, <5>1, Zenon
          <5> QED
            BY <1>6, <5>2
        <4>2. base.id <= changed[r].to
          BY <1>5, <1>10, <2>1, <3>2
        <4>3. PICK i \in Nat, j \in Nat : i = got[r].id /\ j = base.id
          BY <2>1
        <4>4. ChangesRight(past, TRUE, changed[r], j, since[r])
          BY <1>7, <2>2, <4>2, <4>3, ChangesLater
        <4> QED
          BY <4>1, <4>3, <4>4
      <3> QED
        BY <3>1, <3>2
    <2> QED
      BY <1>1, <1>3, <1>7, <1>8, <1>10, <2>3 DEF StepRight, ReaderRight
  <1> QED
    BY <1>9, <1>10

\* NoEntry is current at change 0, before which there was nothing.
LEMMA EmptyCurrent ==
    ASSUME TypeOK, LogInv
    PROVE  EntryCurrent(past, ahead, NoEntry)
  <1>1. NoEntry.id = 0 /\ \A d \in Docs : NoEntry.items[d] = 0
    BY DEF NoEntry, Entry
  <1>2. \A d \in Docs : past[1][d] = 0
    BY DEF LogInv
  <1>3. 0 \in 0..Len(past) - 1 /\ 1 \in 0 + 1..Len(past)
    BY ReadNumbers
  <1>4. \A d \in Docs : 0 \in VersionsSince(past, 0, d)
    BY <1>2, <1>3 DEF VersionsSince
  <1> QED
    BY <1>1, <1>2, <1>3, <1>4 DEF EntryCurrent

\* UpdateItems, Revise and Publish: the entry with the changes is current at the last
\* of them, and the call began before.
LEMMA UpdateRight ==
    ASSUME TypeOK, ReadsInv, ~skipped, NEW r \in Readers,
           UpdateItems(r) \/ Revise(r) \/ Publish(r)
    PROVE  StepRight(r)
  <1>1. EntryCurrent(past, ahead, cache) /\ since[r] \in 0..Len(past) - 1
    BY DEF ReadsInv, ReaderRight
  <1>2. EntryCurrent(past, ahead, got[r])
    BY DEF ReadsInv, ReaderRight, UpdateItems, Revise, Publish
  <1>3. ahead' = ahead /\ since'[r] = since[r]
    BY DEF UpdateItems, Revise, Publish, history
  <1>4. CASE UpdateItems(r)
    <2> DEFINE items == [d \in Docs |-> IF d \in changed[r].read THEN message[d].change
                                        ELSE IF d \in changed[r].docs THEN 0
                                        ELSE got[r].items[d]]
               f == [got[r] EXCEPT !.id = changed[r].to, !.items = items]
    <2>1. /\ pc'[r] = "revise" /\ cache' = cache
          /\ got' = [got EXCEPT ![r] = f]
      BY <1>4 DEF UpdateItems, Goto, TypeOK, LockOK
    <2>2. got'[r] = f
      BY <2>1 DEF TypeOK, EntryOK
    <2>3. f.id = changed[r].to /\ f.items = items
      BY DEF TypeOK, EntryOK
    <2>4. \A d \in Docs : items[d] = IF d \in changed[r].read THEN past[Len(past)][d]
                                     ELSE IF d \in changed[r].docs THEN 0
                                     ELSE got[r].items[d]
      <3>1. past[Len(past)] = [d \in Docs |-> message[d].change]
        BY ReadNumbers, Zenon DEF Versions
      <3>2. \A d \in Docs : past[Len(past)][d] = message[d].change
        BY <3>1
      <3> QED
        BY <3>2
    <2> HIDE DEF f, items
    <2>5. ChangesRight(past, ahead, changed[r], got[r].id, since[r])
      BY <1>4 DEF ReadsInv, ReaderRight, UpdateItems
    <2>a. Applied(past, got[r], changed[r], f)
      BY <2>3, <2>4, Zenon DEF Applied
    <2>6. EntryCurrent(past, ahead, f)
      BY <1>2, <2>a, <2>5, ChangesApplied, ReadNumbers
    <2>7. f.id \in 0..Len(past) - 1 /\ since[r] <= f.id
      BY <2>3, <2>5 DEF ChangesRight
    <2> QED
      BY <1>1, <1>3, <2>1, <2>2, <2>6, <2>7 DEF StepRight, ReaderRight
  <1>5. CASE Revise(r) \/ Publish(r)
    <2>1. got[r].id \in 0..Len(past) - 1 /\ since[r] <= got[r].id
      BY <1>5 DEF ReadsInv, ReaderRight, Revise, Publish
    <2>2. got' = got
      BY <1>5 DEF Revise, Publish
    <2>3. CASE Revise(r)
      <3>1. pc'[r] = "publish" /\ cache' = cache
        BY <2>3 DEF Revise, Goto, TypeOK, LockOK
      <3> QED
        BY <1>1, <1>2, <1>3, <2>1, <2>2, <3>1 DEF StepRight, ReaderRight
    <2>4. CASE Publish(r)
      <3>1. pc'[r] = "return" /\ cache' = got[r]
        BY <2>4 DEF Publish, Goto, TypeOK, LockOK
      <3>2. since[r] \in Nat
        BY <1>1
      <3>3. Shown(past, ahead, got[r].items, since[r])
        BY <1>2, <2>1, <3>2, CurrentShown, ReadNumbers
      <3> QED
        BY <1>1, <1>2, <1>3, <2>2, <3>1, <3>3 DEF StepRight, ReaderRight
    <2> QED
      BY <1>5, <2>3, <2>4
  <1> QED
    BY <1>4, <1>5

\* The call is over.
LEMMA ReturnRight ==
    ASSUME TypeOK, ReadsInv, ~skipped, NEW r \in Readers, Return(r) \/ Fail(r)
    PROVE  StepRight(r)
  <1>1. pc'[r] = "idle" /\ since'[r] = 0 /\ ahead' = ahead /\ cache' = cache
    BY DEF Return, Fail, Goto, history, TypeOK, LockOK
  <1>2. EntryCurrent(past, ahead, cache)
    BY DEF ReadsInv
  <1>3. 0 \in 0..Len(past) - 1
    BY ReadNumbers
  <1> QED
    BY <1>1, <1>2, <1>3 DEF StepRight, ReaderRight

\* Every step of a reader leaves all of them right.
LEMMA ReaderStep ==
    ASSUME TypeOK, LogInv, ReadsInv, NEW r \in Readers, Read(r)
    PROVE  ReadsInv'
  <1>1. SUFFICES ASSUME ~skipped' PROVE ReadsInv'
    BY DEF ReadsInv
  <1>2. past' = past /\ (skipped => skipped') /\ (ahead => ahead')
    <2>1. past' = past
      BY DEF Read, store, Hit, Miss, Build, Scan, ReadChanges, Acquire, UpdateItems,
             Revise, Publish, Return, Fail
    <2>2. skipped' = skipped \/ \E b : skipped' = (skipped \/ b)
      BY Zenon DEF Read, history, Hit, Miss, Build, Scan, ReadChanges, Acquire,
                   UpdateItems, Revise, Publish, Return, Fail
    <2>3. ahead' = ahead \/ \E b : ahead' = (ahead \/ b)
      BY Zenon DEF Read, history, Hit, Miss, Build, Scan, ReadChanges, Acquire,
                   UpdateItems, Revise, Publish, Return, Fail
    <2>4. skipped => skipped'
      BY <2>2, Zenon
    <2>5. ahead => ahead'
      BY <2>3, Zenon
    <2> QED
      BY <2>1, <2>4, <2>5
  <1>3. ~skipped
    BY <1>1, <1>2
  <1>4. StepRight(r)
    BY <1>1, <1>3, HitRight, BuildRight, ScanRight, ReadChangesRight, AcquireRight,
       UpdateRight, ReturnRight DEF Read
  <1>5. ASSUME NEW q \in Readers, q # r
        PROVE  ReaderRight(past, ahead', pc'[q], got'[q], changed'[q], since'[q])
    <2>1. ReaderRight(past, ahead, pc[q], got[q], changed[q], since[q])
      BY <1>3 DEF ReadsInv
    <2>2. pc'[q] = pc[q] /\ got'[q] = got[q] /\ changed'[q] = changed[q]
      BY <1>5, OthersKept
    <2>3. since'[q] = since[q]
      BY <1>5 DEF Read, Begin, Hit, Miss, Build, Scan, ReadChanges, Acquire, UpdateItems,
                  Revise, Publish, Return, Fail, TypeOK
    <2>4. ahead' \in BOOLEAN
      BY ReadNumbers DEF Read, history, Hit, Miss, Build, Scan, ReadChanges, Acquire,
                         UpdateItems, Revise, Publish, Return, Fail
    <2>5. Grows(past, past)
      BY ReadNumbers DEF Grows
    <2>6. ReaderRight(past, ahead', pc[q], got[q], changed[q], since[q])
      BY <1>2, <2>1, <2>4, <2>5, ReaderGrows, ReadNumbers
    <2> QED
      BY <2>2, <2>3, <2>6
  <1> QED
    BY <1>2, <1>4, <1>5 DEF StepRight, ReadsInv

\* Steps of the store, and evictions, do so too.
LEMMA OtherStep ==
    ASSUME TypeOK, TypeOK', LogInv, ReadsInv, [Next]_vars,
           Write \/ Truncate \/ MarkTruncated \/ Evict \/ UNCHANGED vars
    PROVE  ReadsInv'
  <1>1. Grows(past, past')
    BY PastGrows
  <1>2. /\ ahead' = ahead /\ skipped' = skipped
        /\ UNCHANGED <<pc, got, changed, since>>
    BY StoreStep DEF history, Evict, vars
  <1>3. SUFFICES ASSUME ~skipped PROVE ReadsInv'
    BY <1>2 DEF ReadsInv
  <1>4. ASSUME NEW r \in Readers
        PROVE  ReaderRight(past', ahead, pc[r], got[r], changed[r], since[r])
    <2>1. ReaderRight(past, ahead, pc[r], got[r], changed[r], since[r])
      BY <1>3 DEF ReadsInv
    <2> QED
      BY <1>1, <2>1, ReaderGrows, ReadNumbers
  <1>5. EntryCurrent(past', ahead, cache')
    <2>1. CASE cache' = cache
      <3>1. EntryCurrent(past, ahead, cache)
        BY <1>3 DEF ReadsInv
      <3> QED
        BY <1>1, <2>1, <3>1, EntryGrows, ReadNumbers
    <2>2. CASE cache' = NoEntry /\ past' = past
      BY <2>2, EmptyCurrent
    <2>3. cache' = cache \/ (cache' = NoEntry /\ past' = past)
      BY StoreStep DEF Evict, store, vars
    <2> QED
      BY <2>1, <2>2, <2>3
  <1> QED
    BY <1>2, <1>4, <1>5 DEF ReadsInv

\* So what the readers have is right, always.
LEMMA StepReads ==
    /\ Init => ReadsInv
    /\ TypeOK /\ LogInv /\ ReadsInv /\ [Next]_vars => ReadsInv'
  <1>1. ASSUME Init PROVE ReadsInv
    <2>1. TypeOK /\ LogInv
      BY <1>1, CacheTyped, StepLog
    <2>2. EntryCurrent(past, ahead, cache)
      BY <1>1, <2>1, EmptyCurrent DEF Init
    <2>3. ASSUME NEW r \in Readers
          PROVE  ReaderRight(past, ahead, pc[r], got[r], changed[r], since[r])
      <3>1. pc[r] = "idle" /\ since[r] = 0 /\ 0 \in 0..Len(past) - 1
        BY <1>1, <2>1, ReadNumbers DEF Init
      <3> QED
        BY <3>1 DEF ReaderRight
    <2> QED
      BY <2>2, <2>3 DEF ReadsInv
  <1>2. ASSUME TypeOK, LogInv, ReadsInv, [Next]_vars PROVE ReadsInv'
    <2>1. TypeOK'
      BY <1>2, CacheTyped
    <2>2. CASE \E r \in Readers : Read(r)
      BY <1>2, <2>2, ReaderStep
    <2>3. CASE Write \/ Truncate \/ MarkTruncated \/ Evict \/ UNCHANGED vars
      BY <1>2, <2>1, <2>3, OtherStep
    <2> QED
      BY <1>2, <2>2, <2>3 DEF Next
  <1> QED
    BY <1>1, <1>2

\* Every call returns what was so at some moment of the call, message by message,
\* but for the races that ahead and skipped record: no write that was done before
\* get_cached_messages was called is missing from what it returns.
THEOREM CacheReadsCurrent == Spec => []ReadsCurrent
  <1>1. Init => TypeOK /\ LogInv /\ ReadsInv
    BY CacheTyped, StepLog, StepReads
  <1>2. TypeOK /\ LogInv /\ ReadsInv /\ [Next]_vars => (TypeOK /\ LogInv /\ ReadsInv)'
    BY CacheTyped, StepLog, StepReads
  <1>3. ASSUME ReadsInv PROVE ReadsCurrent
    <2>1. ASSUME ~skipped, NEW r \in Readers, pc[r] = "return"
          PROVE  Shown(past, ahead, got[r].items, since[r])
      BY <1>3, <2>1 DEF ReadsInv, ReaderRight
    <2>2. \A r \in Readers, d \in Docs : Current(r, d) = VersionsSince(past, since[r], d)
      BY DEF Current, VersionsSince
    <2> QED
      BY <2>1, <2>2 DEF ReadsCurrent, Shown
  <1> QED
    BY <1>1, <1>2, <1>3, PTL DEF Spec

=============================================================================
