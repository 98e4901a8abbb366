---------------------------- MODULE MessageCache ----------------------------
(***************************************************************************)
(* The cache a node keeps of the messages of an account, and the log of    *)
(* changes that brings it up to date: get_cached_messages of               *)
(* crates/email/src/cache/mod.rs, UpdateLock of crates/common/src/cache,   *)
(* Store::changes of crates/store/src/query/log.rs, and delete_changes of  *)
(* crates/common/src/storage/transaction.rs.                               *)
(*                                                                         *)
(* Requests on one node read the cache; requests on any node change the    *)
(* messages and the daily maintenance of the account truncates the log.    *)
(* Every call first reads the changes since the cached change id, so that  *)
(* it should see whatever was committed before it began.                   *)
(*                                                                         *)
(* The cached mailboxes, built and updated along with the messages, and    *)
(* the contents of a message are left out: a message is the id of the      *)
(* change that last wrote it.                                              *)
(***************************************************************************)
EXTENDS Integers, Sequences, FiniteSets, FiniteSetsExt

CONSTANTS
    Readers,      \* requests on the node, each reading the cache repeatedly
    Docs,         \* document ids of messages; an id is used once
    Threads,      \* thread ids
    MaxHistory,   \* changes_max_history: changes left by delete_changes
    MaxChanges,   \* bound: changes to the account
    MaxEvents     \* bound: evictions, failed calls and truncations

NoReader == "none"

ASSUME CacheAssumption ==
    /\ Docs \subseteq Nat
    /\ {MaxHistory, MaxChanges} \subseteq Nat \ {0} /\ MaxEvents \in Nat
    /\ NoReader \notin Readers

VARIABLES
    message,      \* the store: the messages, each its thread and last change
    log,          \* the log of changes: log[k] is the entry of change id k
    trimmed,      \* delete_changes: where its truncation entry goes, or 0
    cache,        \* cache.messages: the cached entry of the account
    guard,        \* the reader that has the placeholder guard, or NoReader
    lock,         \* the UpdateLocks created: who has the permit, and revision
    pc,           \* what each reader is doing
    got,          \* the cache entry each reader works on, and then returns
    changed,      \* Changes: the result of Store::changes
    since,        \* history: the last change when the call began
    past,         \* history: past[k + 1] is the messages after change k
    events,       \* evictions, failed calls and truncations so far
    ahead,        \* history: an entry may hold messages newer than its id
    skipped,      \* history: an entry may lack changes older than its id
    unlocked      \* history: an entry or its revision was written without the permit

store   == <<message, log, past>>
history == <<ahead, skipped, unlocked>>
vars    == <<store, trimmed, cache, guard, lock, pc, got, changed, since,
             events, history>>

\* A message that is absent.
NoThread == "none"
Absent == [thread |-> NoThread, change |-> 0]

\* Entries of the log.
Gone == [kind |-> "gone"]
Truncated == [kind |-> "truncated"]
LogEntry(ins, upd, del) == [kind |-> "changes", ins |-> ins, upd |-> upd, del |-> del]

\* MessageStoreCache, with the index of its update_lock.
Entry(id, items, l) == [id |-> id, items |-> items, lock |-> l]
NoEntry == Entry(0, [d \in Docs |-> 0], 0)

NoChanges == [docs |-> {}, read |-> {}, to |-> 0]

Versions == [d \in Docs |-> message[d].change]

Init ==
    /\ message = [d \in Docs |-> Absent]
    /\ log = <<>>
    /\ trimmed = 0
    /\ cache = NoEntry
    /\ guard = NoReader
    /\ lock = <<>>
    /\ pc = [r \in Readers |-> "idle"]
    /\ got = [r \in Readers |-> NoEntry]
    /\ changed = [r \in Readers |-> NoChanges]
    /\ since = [r \in Readers |-> 0]
    /\ past = <<Versions>>
    /\ events = 0
    /\ ahead = FALSE /\ skipped = FALSE /\ unlocked = FALSE

Event == events < MaxEvents /\ events' = events + 1

-----------------------------------------------------------------------------
(* The store                                                               *)

\* A batch takes the next change id of the account, writes a message and logs
\* what it did under the ids <<thread, document>>.
Commit(d, new, entry) ==
    /\ Len(log) < MaxChanges
    /\ message' = [message EXCEPT ![d] = new]
    /\ log' = Append(log, entry)
    /\ past' = Append(past, [Versions EXCEPT ![d] = new.change])
    /\ UNCHANGED <<trimmed, cache, guard, lock, pc, got, changed, since, events, history>>

Written(thread) == [thread |-> thread, change |-> Len(log) + 1]

\* Document ids are given in order, and never again.
Insert(d, thread) ==
    /\ \A k \in DOMAIN past : past[k][d] = 0
    /\ \A e \in Docs : e < d => \E k \in DOMAIN past : past[k][e] # 0
    /\ Commit(d, Written(thread), LogEntry({<<thread, d>>}, {}, {}))

Update(d) ==
    /\ message[d] # Absent
    /\ Commit(d, Written(message[d].thread), LogEntry({}, {<<message[d].thread, d>>}, {}))

\* Threads are merged: the message is deleted under one id, inserted under another.
Reassign(d, thread) ==
    /\ message[d] # Absent /\ message[d].thread # thread
    /\ Commit(d, Written(thread), LogEntry({<<thread, d>>}, {}, {<<message[d].thread, d>>}))

Delete(d) ==
    /\ message[d] # Absent
    /\ Commit(d, Absent, LogEntry({}, {}, {<<message[d].thread, d>>}))

Kept == {k \in DOMAIN log : log[k] # Gone}

\* delete_changes: the entries older than the newest MaxHistory + 1 are deleted ...
Truncate ==
    /\ trimmed = 0 /\ Cardinality(Kept) > MaxHistory
    /\ Event
    /\ LET first == Min({k \in Kept : Cardinality({l \in Kept : l > k}) <= MaxHistory})
       IN  /\ log' = [k \in DOMAIN log |-> IF k < first THEN Gone ELSE log[k]]
           /\ trimmed' = first
    /\ UNCHANGED <<message, past, cache, guard, lock, pc, got, changed, since, history>>

\* ... and the oldest of those left is overwritten by a truncation entry.
MarkTruncated ==
    /\ trimmed # 0
    /\ log' = [log EXCEPT ![trimmed] = Truncated]
    /\ trimmed' = 0
    /\ UNCHANGED <<message, past, cache, guard, lock, pc, got, changed, since, events,
                   history>>

-----------------------------------------------------------------------------
(* Store::changes                                                          *)

\* Changes::deserialize, of an entry after others.  An item that is inserted and
\* then updated is inserted; one that is inserted and then deleted is forgotten.
Merge(net, e) ==
    LET ins == net.ins \cup e.ins
        upd == net.upd \cup (e.upd \ ins)
    IN  [ins |-> ins \ e.del, upd |-> upd \ e.del,
         del |-> net.del \cup (e.del \ ins)]

Since(id) == {k \in Kept : k > id}

NoNet == [ins |-> {}, upd |-> {}, del |-> {}]

\* The iteration over the entries of log l after id: what they amount to up to each.
\* A truncation entry holds no changes.
NetUpTo(l, id) ==
    LET net[k \in 0..Len(l)] ==
          IF k = 0 THEN NoNet
          ELSE IF k <= id \/ l[k] \in {Gone, Truncated} THEN net[k - 1]
          ELSE Merge(net[k - 1], l[k])
    IN  net

NetChanges(id) == NetUpTo(log, id)[Len(log)]

DocsOf(net) == {i[2] : i \in net.ins \cup net.upd \cup net.del}

\* Mutant: a message deleted under one id counts as deleted.
ToReadUndeleted(net) ==
    {d \in DocsOf(net) : ~\E i \in net.del : i[2] = d}

\* The documents to be read: all the net changes are about, but those just deleted.
\* One that is deleted under an id and has another change was given a new thread.
ToRead(net) ==
    {d \in DocsOf(net) :
        \/ \E i \in net.ins \cup net.upd : i[2] = d
        \/ Cardinality({i \in net.del : i[2] = d}) > 1}

IsTruncated(id) == \E k \in Since(id) : log[k] = Truncated

-----------------------------------------------------------------------------
(* get_cached_messages                                                     *)

Goto(r, step) == pc' = [pc EXCEPT ![r] = step]

\* The call begins: get_value_or_guard_async gives the cached entry, or the guard to
\* insert one.  While another reader has the guard a call waits, which is the same
\* here as if it had not begun.
Begin(r) ==
    /\ pc[r] = "idle"
    /\ since' = [since EXCEPT ![r] = Len(log)]

Hit(r) ==
    /\ Begin(r)
    /\ cache # NoEntry
    /\ got' = [got EXCEPT ![r] = cache]
    /\ Goto(r, "changes")
    /\ UNCHANGED <<store, trimmed, cache, guard, lock, changed, events, history>>

Miss(r) ==
    /\ Begin(r)
    /\ cache = NoEntry /\ guard = NoReader
    /\ guard' = r
    /\ lock' = Append(lock, [permit |-> NoReader, revision |-> 0])
    /\ got' = [got EXCEPT ![r] = [NoEntry EXCEPT !.lock = Len(lock) + 1]]
    /\ Goto(r, "build")
    /\ UNCHANGED <<store, trimmed, cache, changed, events, history>>

\* full_cache_build: first the last change id ...
Build(r) ==
    /\ pc[r] = "build"
    /\ got' = [got EXCEPT ![r].id = IF Kept = {} THEN 0 ELSE Max(Kept)]
    /\ Goto(r, "scan")
    /\ UNCHANGED <<store, trimmed, cache, guard, lock, changed, since, events, history>>

\* ... then the messages: changes may have been made in between.
Scan(r) ==
    /\ pc[r] = "scan"
    /\ got' = [got EXCEPT ![r].items = Versions]
    /\ ahead' = (ahead \/ \E k \in Kept : k > got[r].id)
    /\ Goto(r, "revise")
    /\ UNCHANGED <<store, trimmed, cache, guard, lock, changed, since, events, skipped,
                   unlocked>>

\* The changes since the entry.  A truncated log calls for a new entry, and no
\* change is a hit.
ReadChanges(r) ==
    /\ pc[r] = "changes"
    /\ LET id == got[r].id
           net == NetChanges(id)
       IN  IF IsTruncated(id)
             THEN Goto(r, "build") /\ UNCHANGED changed
             ELSE /\ changed' = [changed EXCEPT ![r] =
                       [docs |-> DocsOf(net), read |-> ToRead(net),
                        to |-> Max(Since(id) \cup {id})]]
                  /\ Goto(r, IF DocsOf(net) = {} THEN "return" ELSE "lock")
    \* Some are missing, and no truncation entry says so.
    /\ skipped' = (skipped \/ (~IsTruncated(got[r].id) /\
                               \E k \in DOMAIN log : k > got[r].id /\ log[k] = Gone))
    /\ UNCHANGED <<store, trimmed, cache, guard, lock, got, since, events, ahead,
                   unlocked>>

Peeked(r) == IF cache = NoEntry THEN got[r] ELSE cache

\* Mutant: the revision of the lock is not looked at.
AcquireAlways(r) ==
    LET l == got[r].lock
    IN  /\ pc[r] = "lock"
        /\ lock[l].permit = NoReader
        /\ lock' = [lock EXCEPT ![l].permit = r]
        /\ Goto(r, "update")
        /\ UNCHANGED <<store, trimmed, cache, guard, got, changed, since, events, history>>

\* UpdateLock::acquire.  When the entry is not the latest, the cached one is taken
\* instead; if it has the changes it is returned, and if not they are applied to it,
\* though they were read since another id.
Acquire(r) ==
    LET l == got[r].lock
        base == IF lock[l].revision = got[r].id THEN got[r] ELSE Peeked(r)
        enough == lock[l].revision # got[r].id /\ base.id >= changed[r].to
    IN  /\ pc[r] = "lock"
        /\ lock[l].permit = NoReader
        /\ got' = [got EXCEPT ![r] = base]
        /\ IF enough
             THEN Goto(r, "return") /\ UNCHANGED <<lock, history>>
             ELSE /\ lock' = [lock EXCEPT ![l].permit = r]
                  /\ Goto(r, "update")
                  /\ ahead' = (ahead \/ base.id > got[r].id)
                  /\ skipped' = (skipped \/ base.id < got[r].id)
                  /\ UNCHANGED unlocked
        /\ UNCHANGED <<store, trimmed, cache, guard, changed, since, events>>

\* update_email_cache: the messages that changed are read, as they are now.
UpdateItems(r) ==
    /\ pc[r] = "update"
    /\ got' = [got EXCEPT ![r] =
         [@ EXCEPT !.id = changed[r].to,
                   !.items = [d \in Docs |->
                       IF d \in changed[r].read THEN message[d].change
                       ELSE IF d \in changed[r].docs THEN 0 ELSE got[r].items[d]]]]
    /\ Goto(r, "revise")
    /\ UNCHANGED <<store, trimmed, cache, guard, lock, changed, since, events, history>>

\* The reader has neither the guard nor the permit of the lock it works with.
Unpermitted(r) == guard # r /\ lock[got[r].lock].permit # r

\* set_revision ...
Revise(r) ==
    /\ pc[r] = "revise"
    /\ lock' = [lock EXCEPT ![got[r].lock].revision = got[r].id]
    /\ unlocked' = (unlocked \/ Unpermitted(r))
    /\ Goto(r, "publish")
    /\ UNCHANGED <<store, trimmed, cache, guard, got, changed, since, events, ahead,
                   skipped>>

\* Mutant: the permit is not given back.
ReleasedGuard(r) ==
    /\ lock' = lock
    /\ guard' = IF guard = r THEN NoReader ELSE guard

\* The locks without the permit of r, and the guard given up by r.
Released(r) ==
    /\ lock' = [l \in DOMAIN lock |->
                  IF lock[l].permit = r THEN [lock[l] EXCEPT !.permit = NoReader]
                  ELSE lock[l]]
    /\ guard' = IF guard = r THEN NoReader ELSE guard

\* ... and the new entry replaces the cached one, whichever that is.
Publish(r) ==
    /\ pc[r] = "publish"
    /\ cache' = got[r]
    /\ unlocked' = \/ unlocked
                   \/ Unpermitted(r)
                   \/ cache # NoEntry /\ lock[cache.lock].permit # r
    /\ Released(r)
    /\ Goto(r, "return")
    /\ UNCHANGED <<store, trimmed, got, changed, since, events, ahead, skipped>>

\* The caller has the result.
Return(r) ==
    /\ pc[r] = "return"
    /\ got' = [got EXCEPT ![r] = NoEntry]
    /\ changed' = [changed EXCEPT ![r] = NoChanges]
    /\ since' = [since EXCEPT ![r] = 0]
    /\ Goto(r, "idle")
    /\ UNCHANGED <<store, trimmed, cache, guard, lock, events, history>>

\* A read fails, or the request is dropped while it waits: so are guard and permit.
Fail(r) ==
    /\ pc[r] \in {"build", "scan", "changes", "lock", "update"}
    /\ Event
    /\ Released(r)
    /\ got' = [got EXCEPT ![r] = NoEntry]
    /\ changed' = [changed EXCEPT ![r] = NoChanges]
    /\ since' = [since EXCEPT ![r] = 0]
    /\ Goto(r, "idle")
    /\ UNCHANGED <<store, trimmed, cache, history>>

\* The cache is at its limit and the entry is dropped.
Evict ==
    /\ cache # NoEntry
    /\ Event
    /\ cache' = NoEntry
    /\ UNCHANGED <<store, trimmed, guard, lock, pc, got, changed, since, history>>

-----------------------------------------------------------------------------
Read(r) ==
    \/ Hit(r) \/ Miss(r) \/ Build(r) \/ Scan(r) \/ ReadChanges(r)
    \/ Acquire(r) \/ UpdateItems(r) \/ Revise(r) \/ Publish(r) \/ Return(r)
    \/ Fail(r)

Write ==
    \/ \E d \in Docs, t \in Threads : Insert(d, t) \/ Reassign(d, t)
    \/ \E d \in Docs : Update(d) \/ Delete(d)

Next == (\E r \in Readers : Read(r)) \/ Write \/ Truncate \/ MarkTruncated \/ Evict

Spec == Init /\ [][Next]_vars

-----------------------------------------------------------------------------
(* Properties                                                              *)

Steps == {"idle", "build", "scan", "changes", "lock", "update", "revise",
          "publish", "return"}

Items == [Docs -> 0..MaxChanges]
ItemIds == (Threads \cup {NoThread}) \X Docs
LogEntries ==
    {Gone, Truncated} \cup
    [kind : {"changes"}, ins : SUBSET ItemIds, upd : SUBSET ItemIds,
     del : SUBSET ItemIds]

StoreOK ==
    /\ message \in [Docs -> [thread : Threads \cup {NoThread}, change : 0..MaxChanges]]
    /\ log \in Seq(LogEntries) /\ Len(log) <= MaxChanges
    /\ past \in Seq(Items)
    /\ Len(past) = Len(log) + 1 /\ past[Len(past)] = Versions
    /\ trimmed \in 0..Len(log)

\* A permit is that of a reader who is on the way to publish.
LockOK ==
    /\ lock \in Seq([permit : Readers \cup {NoReader}, revision : 0..MaxChanges])
    /\ guard \in Readers \cup {NoReader}
    /\ pc \in [Readers -> Steps]
    /\ \A l \in DOMAIN lock :
          lock[l].permit # NoReader => pc[lock[l].permit] \in {"update", "revise", "publish"}

\* The locks that the readers and the cached entry name have been created.
EntryOK ==
    /\ cache = NoEntry \/
         cache \in [id : 0..MaxChanges, items : Items, lock : 1..Len(lock)]
    /\ got \in [Readers -> [id : 0..MaxChanges, items : Items, lock : 0..Len(lock)]]
    /\ \A r \in Readers : pc[r] # "idle" => got[r].lock # 0

TypeOK ==
    /\ StoreOK /\ LockOK /\ EntryOK
    /\ DOMAIN changed = Readers
    /\ \A r \in Readers : changed[r].to \in 0..MaxChanges
    /\ since \in [Readers -> 0..MaxChanges]
    /\ events \in 0..MaxEvents
    /\ ahead \in BOOLEAN /\ skipped \in BOOLEAN /\ unlocked \in BOOLEAN

\* The versions a message had since the call of r began.
Current(r, d) == {past[k][d] : k \in since[r] + 1..Len(past)}

\* What a call returns was so at some moment of the call, message by message: a
\* write that was done before it is seen.  The exceptions are a message that was
\* deleted and is still listed, which takes an entry ahead of its id; and anything
\* when changes were skipped.
ReadsCurrent ==
    skipped \/ \A r \in Readers : pc[r] = "return" =>
        \A d \in Docs :
            \/ got[r].items[d] \in Current(r, d)
            \/ ahead /\ got[r].items[d] # 0 /\ 0 \in Current(r, d)

\* The cached entry goes back to an older id only once a reader wrote or replaced
\* one, or set its revision, without its permit, and that takes a truncated log or
\* an evicted entry.
GoesForward ==
    [][cache # NoEntry /\ cache' # NoEntry /\ cache'.id < cache.id =>
          unlocked' /\ events > 0]_vars
=============================================================================
