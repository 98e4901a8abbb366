--------------------------- MODULE BlobStoreProofs ---------------------------
(***************************************************************************)
(* No object loses the contents of its blob, and no contents are forgotten *)
(* by the purge, for any number of writers and accounts, any duration of a *)
(* temporary link and purges that fail at any point, up to the races that  *)
(* the history variables of BlobStore name.                                *)
(***************************************************************************)
EXTENDS BlobStore, TLAPS

-----------------------------------------------------------------------------
(* Types                                                                   *)

\* Those who store a blob for a user hold a temporary link of an account, which
\* is what the user may be given.
HoldsOwn ==
    \A w \in Writers : pc[w] \in {"check", "upload", "commit", "stored"} =>
        hold[w].account \in Accounts

TInv == TypeOK /\ HoldsOwn

\* At the start nobody holds a link.
LEMMA InitTInv == Init => TInv
  <1> SUFFICES ASSUME Init PROVE TInv
    OBVIOUS
  <1>1. now \in 1..Horizon + Hold + 1
    BY BlobAssumption DEF Init
  <1>2. {data, commit, overlapped, interrupted, exposed} \subseteq BOOLEAN
    BY DEF Init
  <1>3. /\ link \in [Writers -> {"none", "document", "id"}]
        /\ pc \in [Writers -> Steps]
        /\ hold \in [Writers -> Temps(Accounts \cup {Queue}) \cup {NoHold}]
    BY DEF Init, Steps
  <1>4. /\ purge \in [pc : {"idle", "blob", "keys"}, unlinked : BOOLEAN,
                       expired : SUBSET Temps(Accounts \cup {Queue})]
        /\ purge.pc # "blob"
    BY DEF Init, NoPurge
  <1> QED
    BY <1>1, <1>2, <1>3, <1>4 DEF Init, TInv, TypeOK, HoldsOwn

\* Every step of a writer, of the purge and of the clock keeps the types and the links
\* that writers hold.
LEMMA StepTInv == TInv /\ [Next]_vars => TInv'
  <1> SUFFICES ASSUME TInv, [Next]_vars PROVE TInv'
    OBVIOUS
  <1> USE BlobAssumption DEF TInv, TypeOK, HoldsOwn, Steps, Temps
  <1>1. ASSUME NEW w \in Writers, NEW a \in Accounts, Put(w, a) PROVE TInv'
    BY <1>1 DEF Put, Reserve, Goto, Temp, NoHold
  <1>2. ASSUME NEW w \in Writers, PutQueue(w) PROVE TInv'
    BY <1>2 DEF PutQueue, Reserve, Goto, Temp, NoHold
  <1>3. ASSUME NEW w \in Writers, Check(w) PROVE TInv'
    BY <1>3 DEF Check, Goto, blob, history
  <1>4. ASSUME NEW w \in Writers, Upload(w) PROVE TInv'
    BY <1>4 DEF Upload, Goto, history
  <1>5. ASSUME NEW w \in Writers, CommitBlob(w) PROVE TInv'
    BY <1>5 DEF CommitBlob, Goto, history
  <1>6. ASSUME NEW w \in Writers, Link(w) PROVE TInv'
    BY <1>6 DEF Link, Goto, history, NoHold
  <1>7. ASSUME NEW w \in Writers, Leave(w) PROVE TInv'
    BY <1>7 DEF Leave, Goto, blob, history, NoHold
  <1>8. ASSUME NEW w \in Writers, Access(w) PROVE TInv'
    BY <1>8 DEF Access, Goto, blob
  <1>9. ASSUME NEW w \in Writers, LinkAccessed(w) PROVE TInv'
    BY <1>9 DEF LinkAccessed, Goto
  <1>10. ASSUME NEW w \in Writers, Unlink(w) PROVE TInv'
    BY <1>10 DEF Unlink, writer, history
  <1>11. CASE PurgeScan
    BY <1>11 DEF PurgeScan, Unlinked, blob, writer
  <1>12. CASE PurgeBlob
    BY <1>12 DEF PurgeBlob, writer, history
  <1>13. CASE PurgeKeys
    BY <1>13 DEF PurgeKeys, NoPurge, writer, history
  <1>14. CASE PurgeFails
    BY <1>14 DEF PurgeFails, NoPurge, blob, writer
  <1>15. CASE Tick
    BY <1>15 DEF Tick, blob, writer, history
  <1>16. CASE UNCHANGED vars
    BY <1>16 DEF vars, blob, writer, history
  <1> QED
    BY <1>1, <1>2, <1>3, <1>4, <1>5, <1>6, <1>7, <1>8, <1>9, <1>10, <1>11, <1>12,
       <1>13, <1>14, <1>15, <1>16 DEF Next, Write

\* Temporary links, the links of objects and the state of the purge have their types
\* in every reachable state: in particular, a purge deletes contents only when it has
\* found no link in force.
THEOREM BlobTypeOK == Spec => []TypeOK
  <1>1. TInv => TypeOK
    BY DEF TInv
  <1> QED
    BY <1>1, InitTInv, StepTInv, PTL DEF Spec

-----------------------------------------------------------------------------
(* Contents are not lost                                                   *)

AllIdle == \A w \in Writers : pc[w] = "idle"

\* While the purge is on its way to delete the blob, nobody is at work on it and
\* nothing keeps it.
DoomedAlone == Doomed => AllIdle /\ ~Kept

\* The commit stands for the contents until the purge has deleted them, and whoever
\* has found or stored the contents can rely on them.
CommitStands == ~(purge.pc = "keys" /\ purge.unlinked) => (commit => data)
StoredStands == \A w \in Writers : pc[w] \in {"commit", "stored", "link-queue"} => data

NothingLost ==
    DoomedAlone /\ CommitStands /\ StoredStands /\ (Linked => data)

LostInv == TInv /\ (overlapped \/ interrupted \/ exposed \/ NothingLost)

\* What a purge or a writer has done wrong stays on record.
LEMMA HistoryGrows ==
    ASSUME TypeOK, [Next]_vars
    PROVE  /\ overlapped => overlapped'
           /\ interrupted => interrupted'
           /\ exposed => exposed'
  <1> USE DEF history
  <1>1. ASSUME NEW w \in Writers, NEW a, NEW next, Reserve(w, a, next)
        PROVE  (overlapped => overlapped') /\ UNCHANGED <<interrupted, exposed>>
    BY <1>1, Zenon DEF Reserve
  <1>a. ASSUME NEW w \in Writers, Access(w)
        PROVE  (overlapped => overlapped') /\ UNCHANGED <<interrupted, exposed>>
    BY <1>a, Zenon DEF Access
  <1>2. ASSUME NEW w \in Writers, LinkAccessed(w)
        PROVE  (exposed => exposed') /\ UNCHANGED <<overlapped, interrupted>>
    BY <1>2, Zenon DEF LinkAccessed
  <1>3. ASSUME NEW w \in Writers,
               Check(w) \/ Upload(w) \/ CommitBlob(w) \/ Link(w) \/ Leave(w)
                 \/ Unlink(w)
        PROVE  UNCHANGED history
    BY <1>3 DEF Check, Upload, CommitBlob, Link, Leave, Unlink
  <1>4. CASE PurgeScan
    BY <1>4, Zenon DEF PurgeScan
  <1>5. CASE PurgeFails
    BY <1>5, Zenon DEF PurgeFails
  <1>6. CASE PurgeBlob \/ PurgeKeys \/ Tick \/ UNCHANGED vars
    BY <1>6 DEF PurgeBlob, PurgeKeys, Tick, vars
  <1> QED
    BY <1>1, <1>a, <1>2, <1>3, <1>4, <1>5, <1>6 DEF Next, Write, Put, PutQueue

\* No step takes the contents from an object, short of the races on record.
LEMMA StepLostInv == LostInv /\ [Next]_vars => LostInv'
  <1> SUFFICES ASSUME LostInv, [Next]_vars, ~(overlapped \/ interrupted \/ exposed)'
               PROVE  NothingLost'
    BY StepTInv, Zenon DEF LostInv
  <1>t. TInv /\ TInv'
    BY StepTInv DEF LostInv
  <1>i. NothingLost
    BY <1>t, HistoryGrows DEF LostInv, TInv
  <1> USE BlobAssumption, <1>t, <1>i DEF TInv, TypeOK, Steps, NothingLost,
          DoomedAlone, Doomed, AllIdle, Kept, InForce, CommitStands, StoredStands, Linked
  <1>1. ASSUME NEW w \in Writers, NEW a \in Accounts, Put(w, a) PROVE NothingLost'
    BY <1>1 DEF Put, Reserve, Goto
  <1>2. ASSUME NEW w \in Writers, PutQueue(w) PROVE NothingLost'
    BY <1>2 DEF PutQueue, Reserve, Goto
  <1>3. ASSUME NEW w \in Writers, Check(w) PROVE NothingLost'
    BY <1>3 DEF Check, Goto, blob, history
  <1>4. ASSUME NEW w \in Writers, Upload(w) PROVE NothingLost'
    BY <1>4 DEF Upload, Goto, history
  <1>5. ASSUME NEW w \in Writers, CommitBlob(w) PROVE NothingLost'
    BY <1>5 DEF CommitBlob, Goto, history
  <1>6. ASSUME NEW w \in Writers, Link(w) PROVE NothingLost'
    BY <1>6 DEF Link, Goto, history
  <1>7. ASSUME NEW w \in Writers, Leave(w) PROVE NothingLost'
    BY <1>7 DEF Leave, Goto, blob, history
  <1>8. ASSUME NEW w \in Writers, Access(w) PROVE NothingLost'
    BY <1>8 DEF Access, Goto, blob
  <1>9. ASSUME NEW w \in Writers, LinkAccessed(w) PROVE NothingLost'
    BY <1>9 DEF LinkAccessed, Goto
  <1>10. ASSUME NEW w \in Writers, Unlink(w) PROVE NothingLost'
    BY <1>10 DEF Unlink, writer, history
  <1>11. CASE PurgeScan
    BY <1>11 DEF PurgeScan, Unlinked, blob, writer
  <1>12. CASE PurgeBlob
    BY <1>12 DEF PurgeBlob, writer, history
  <1>13. CASE PurgeKeys
    BY <1>13 DEF PurgeKeys, NoPurge, writer, history
  <1>14. CASE PurgeFails
    BY <1>14 DEF PurgeFails, NoPurge, blob, writer
  <1>15. CASE Tick
    BY <1>15 DEF Tick, blob, writer, history, Temps
  <1>16. CASE UNCHANGED vars
    BY <1>16 DEF vars, blob, writer, history
  <1> QED
    BY <1>1, <1>2, <1>3, <1>4, <1>5, <1>6, <1>7, <1>8, <1>9, <1>10, <1>11, <1>12,
       <1>13, <1>14, <1>15, <1>16 DEF Next, Write

\* No object has a blob whose contents are gone, whatever writers, users, administrators
\* and purges do and wherever they stop, unless the blob was reserved, or read by an
\* administrator to make an object of it, while a purge was to delete it, a purge stopped
\* between the contents and the keys, or somebody relied on a temporary link that had
\* ended or on none.
THEOREM BlobNoLostContents == Spec => []NoLostContents
  <1>1. Init => LostInv
    BY InitTInv DEF Init, LostInv, NothingLost, DoomedAlone, Doomed, CommitStands,
       StoredStands, Linked, NoPurge
  <1>2. LostInv => NoLostContents
    BY DEF LostInv, NothingLost, NoLostContents
  <1> QED
    BY <1>1, <1>2, StepLostInv, PTL DEF Spec

-----------------------------------------------------------------------------
(* Contents are not forgotten                                              *)

\* A purge that has not found the blob without a link leaves a key behind.
KeysLeft ==
    /\ purge.pc = "keys" /\ purge.unlinked => ~data
    /\ purge.pc = "keys" /\ ~purge.unlinked => commit \/ temps \ purge.expired # {}

\* What was stored has been committed, and so has what an object links.
CommitFollows ==
    /\ \A w \in Writers : pc[w] = "stored" => commit
    /\ Linked => commit

\* From the moment a writer reserves the blob, it has a key.
KeyFirst ==
    data \/ (\E w \in Writers : pc[w] \notin {"idle", "access"})
        => commit \/ temps # {}

NothingForgotten == DoomedAlone /\ KeysLeft /\ CommitFollows /\ KeyFirst

ForgottenInv == TInv /\ (overlapped \/ exposed \/ NothingForgotten)

\* No step leaves the contents without a key, short of the races on record; a purge
\* that stops halfway leaves the keys to the next one.
LEMMA StepForgottenInv == ForgottenInv /\ [Next]_vars => ForgottenInv'
  <1> SUFFICES ASSUME ForgottenInv, [Next]_vars, ~(overlapped \/ exposed)'
               PROVE  NothingForgotten'
    BY StepTInv, Zenon DEF ForgottenInv
  <1>t. TInv /\ TInv'
    BY StepTInv DEF ForgottenInv
  <1>i. NothingForgotten
    BY <1>t, HistoryGrows DEF ForgottenInv, TInv
  <1> USE BlobAssumption, <1>t, <1>i DEF TInv, TypeOK, Steps, NothingForgotten,
          DoomedAlone, Doomed, AllIdle, Kept, InForce, KeysLeft, CommitFollows, KeyFirst, Linked
  <1>1. ASSUME NEW w \in Writers, NEW a \in Accounts, Put(w, a) PROVE NothingForgotten'
    BY <1>1 DEF Put, Reserve, Goto
  <1>2. ASSUME NEW w \in Writers, PutQueue(w) PROVE NothingForgotten'
    BY <1>2 DEF PutQueue, Reserve, Goto
  <1>3. ASSUME NEW w \in Writers, Check(w) PROVE NothingForgotten'
    BY <1>3 DEF Check, Goto, blob, history
  <1>4. ASSUME NEW w \in Writers, Upload(w) PROVE NothingForgotten'
    BY <1>4 DEF Upload, Goto, history
  <1>5. ASSUME NEW w \in Writers, CommitBlob(w) PROVE NothingForgotten'
    BY <1>5 DEF CommitBlob, Goto, history
  <1>6. ASSUME NEW w \in Writers, Link(w) PROVE NothingForgotten'
    BY <1>6 DEF Link, Goto, history
  <1>7. ASSUME NEW w \in Writers, Leave(w) PROVE NothingForgotten'
    BY <1>7 DEF Leave, Goto, blob, history
  <1>8. ASSUME NEW w \in Writers, Access(w) PROVE NothingForgotten'
    BY <1>8 DEF Access, Goto, blob
  <1>9. ASSUME NEW w \in Writers, LinkAccessed(w) PROVE NothingForgotten'
    BY <1>9 DEF LinkAccessed, Goto
  <1>10. ASSUME NEW w \in Writers, Unlink(w) PROVE NothingForgotten'
    BY <1>10 DEF Unlink, writer, history
  <1>11. CASE PurgeScan
    BY <1>11 DEF PurgeScan, Unlinked, blob, writer
  <1>12. CASE PurgeBlob
    BY <1>12 DEF PurgeBlob, writer, history
  <1>13. CASE PurgeKeys
    BY <1>13 DEF PurgeKeys, NoPurge, writer, history
  <1>14. CASE PurgeFails
    BY <1>14 DEF PurgeFails, NoPurge, blob, writer
  <1>15. CASE Tick
    BY <1>15 DEF Tick, blob, writer, history, Temps
  <1>16. CASE UNCHANGED vars
    BY <1>16 DEF vars, blob, writer, history
  <1> QED
    BY <1>1, <1>2, <1>3, <1>4, <1>5, <1>6, <1>7, <1>8, <1>9, <1>10, <1>11, <1>12,
       <1>13, <1>14, <1>15, <1>16 DEF Next, Write

\* While nobody is at work, contents that are in the blob store have a key by which a
\* purge finds them, wherever the purges and the writers before stopped, unless the
\* blob was reserved or read while a purge was to delete it or somebody relied on a
\* temporary link that had ended or on none.
THEOREM BlobNoForgottenContents == Spec => []NoForgottenContents
  <1>1. Init => ForgottenInv
    BY InitTInv DEF Init, ForgottenInv, NothingForgotten, DoomedAlone, Doomed, KeysLeft,
       CommitFollows, KeyFirst, Linked, NoPurge
  <1>2. ForgottenInv => NoForgottenContents
    BY DEF ForgottenInv, NothingForgotten, KeyFirst, NoForgottenContents
  <1> QED
    BY <1>1, <1>2, StepForgottenInv, PTL DEF Spec

=============================================================================
