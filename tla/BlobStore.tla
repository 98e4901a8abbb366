------------------------------ MODULE BlobStore ------------------------------
(***************************************************************************)
(* The contents of one blob, the keys that say it is there and the links   *)
(* that keep it: those who store a blob and link it (put_temporary_blob    *)
(* and put_jmap_blob of crates/common/src/storage/blob.rs, queue of        *)
(* crates/smtp/src/queue/spool.rs, and the objects that link a blob), and  *)
(* the task that purges blobs without a link (purge_blobs of crates/store/ *)
(* src/write/blob.rs).  Blobs are named by their contents, so that two who *)
(* store the same contents store the same blob.  Blobs do not interact.    *)
(*                                                                         *)
(* The contents are in the blob store and the keys in the data store, and  *)
(* nothing locks a blob: a temporary link is to keep the purge away.       *)
(***************************************************************************)
EXTENDS Integers, FiniteSets, FiniteSetsExt

CONSTANTS
    Writers,    \* those who store the blob, each with a link of its own
    Admins,     \* the writers with FetchAnyBlob, who need no link to read a blob
    Accounts,   \* the accounts they may store it for
    Queue,      \* the account of the queue, which has no user
    Hold,       \* how long a temporary link is good for
    Horizon     \* bound: the last instant at which one is made

ASSUME BlobAssumption ==
    /\ Queue \notin Accounts
    /\ Admins \subseteq Writers
    /\ Hold \in Nat \ {0} /\ Horizon \in Nat \ {0}

VARIABLES
    now,
    data,         \* the blob store has the contents
    commit,       \* BlobOp::Commit
    temps,        \* BlobLink::Temporary: an account, and until when
    link,         \* link[w]: BlobLink::Document or Id, of the object of w, or none
    pc,           \* what each writer is doing
    hold,         \* the temporary link of each writer
    given,        \* the temporary links whose blob ids users have been given
    purge,        \* the purge: what it does, and what it found to be deleted
    overlapped,   \* history: the blob was reserved, or read by an administrator to make
                  \* an object of it, while a purge was to delete it
    interrupted,  \* history: a purge ended between the contents and the keys
    exposed       \* history: a purge found no link while somebody was about to make one,
                  \* or one was made of a blob that was not committed

blob    == <<data, commit, temps, link>>
writer  == <<pc, hold, given>>
history == <<overlapped, interrupted, exposed>>
vars    == <<now, blob, writer, purge, history>>

Temp(account, until) == [account |-> account, until |-> until]
NoHold == Temp("none", 0)
NoPurge == [pc |-> "idle", unlinked |-> FALSE, expired |-> {}]

Init ==
    /\ now = 1
    /\ data = FALSE /\ commit = FALSE
    /\ temps = {}
    /\ link = [w \in Writers |-> "none"]
    /\ pc = [w \in Writers |-> "idle"]
    /\ hold = [w \in Writers |-> NoHold]
    /\ given = {}
    /\ purge = NoPurge
    /\ overlapped = FALSE /\ interrupted = FALSE /\ exposed = FALSE

InForce(t) == t.until > now
Linked == \E w \in Writers : link[w] # "none"

\* The purge would leave the blob alone.
Kept == Linked \/ \E t \in temps : InForce(t)

\* Users are given what an object of theirs links, or what they have uploaded; an
\* administrator who names the blob as no link's (is_superuser) is given any blob.
HasAccess(w) ==
    \/ w \in Admins
    \/ \E v \in Writers : link[v] = "document"
    \/ \E t \in given \cap temps : InForce(t)

\* The purge has found the blob without a link, and has not cleared its keys yet.
Doomed == purge.pc # "idle" /\ purge.unlinked

Goto(w, step) == pc' = [pc EXCEPT ![w] = step]

-----------------------------------------------------------------------------
(* Storing and linking                                                     *)

\* The temporary link is written first.  Those who store the same blob for the same
\* account within the same second write the same link.
Reserve(w, account, next) ==
    /\ pc[w] = "idle" /\ link[w] = "none"
    /\ now <= Horizon
    /\ hold' = [hold EXCEPT ![w] = Temp(account, now + Hold)]
    /\ temps' = temps \cup {Temp(account, now + Hold)}
    /\ overlapped' = (overlapped \/ Doomed)
    /\ Goto(w, next)
    /\ UNCHANGED <<now, data, commit, link, given, purge, interrupted, exposed>>

\* put_temporary_blob, put_jmap_blob: the contents are stored unless there is a
\* commit; the queue stores them always.
Put(w, account) == Reserve(w, account, "check")
PutQueue(w) == Reserve(w, Queue, "upload-queue")

\* Mutant: any key of the blob stands for its contents.
CheckAnyKey(w) ==
    /\ pc[w] = "check"
    /\ Goto(w, IF commit \/ temps # {hold[w]} THEN "stored" ELSE "upload")
    /\ UNCHANGED <<now, blob, hold, given, purge, history>>

Check(w) ==
    /\ pc[w] = "check"
    /\ Goto(w, IF commit THEN "stored" ELSE "upload")
    /\ UNCHANGED <<now, blob, hold, given, purge, history>>

\* put_blob.
Upload(w) ==
    /\ pc[w] \in {"upload", "upload-queue"}
    /\ data' = TRUE
    /\ Goto(w, IF pc[w] = "upload" THEN "commit" ELSE "link-queue")
    /\ UNCHANGED <<now, commit, temps, link, hold, given, purge, history>>

\* Mutant: what was stored is not committed.
CommitForgotten(w) ==
    /\ pc[w] = "commit"
    /\ Goto(w, "stored")
    /\ UNCHANGED <<now, blob, hold, given, purge, history>>

CommitBlob(w) ==
    /\ pc[w] = "commit"
    /\ commit' = TRUE
    /\ Goto(w, "stored")
    /\ UNCHANGED <<now, data, temps, link, hold, given, purge, history>>

\* The object is written, with its link, and the temporary link is cleared.  The
\* batch of the queue also commits the blob.
Link(w) ==
    /\ pc[w] \in {"stored", "link-queue"}
    /\ link' = [link EXCEPT ![w] = IF pc[w] = "link-queue" THEN "id" ELSE "document"]
    /\ temps' = temps \ {hold[w]}
    /\ commit' = (commit \/ pc[w] = "link-queue")
    /\ hold' = [hold EXCEPT ![w] = NoHold]
    /\ Goto(w, "idle")
    /\ UNCHANGED <<now, data, given, purge, history>>

\* An upload ends with the temporary link, and the user is given the id of the blob.
\* A writer may also fail or stop at any step, and leaves what it wrote.
Leave(w) ==
    /\ pc[w] # "idle"
    /\ given' \in {given, given \cup (IF pc[w] = "stored" THEN {hold[w]} ELSE {})}
    /\ hold' = [hold EXCEPT ![w] = NoHold]
    /\ Goto(w, "idle")
    /\ UNCHANGED <<now, blob, purge, history>>

\* An object is made of a blob that is there: has_access_blob looks for a link, and
\* get_blob for the contents ...
Access(w) ==
    /\ pc[w] = "idle" /\ link[w] = "none"
    /\ HasAccess(w) /\ data
    /\ overlapped' = (overlapped \/ Doomed)
    /\ Goto(w, "access")
    /\ UNCHANGED <<now, blob, hold, given, purge, interrupted, exposed>>

\* ... and the object is written, with its link.
LinkAccessed(w) ==
    /\ pc[w] = "access"
    /\ link' = [link EXCEPT ![w] = "document"]
    /\ exposed' = (exposed \/ ~commit)
    /\ Goto(w, "idle")
    /\ UNCHANGED <<now, data, commit, temps, hold, given, purge, overlapped, interrupted>>

\* The object is destroyed, and its link with it.
Unlink(w) ==
    /\ pc[w] = "idle" /\ link[w] # "none"
    /\ link' = [link EXCEPT ![w] = "none"]
    /\ UNCHANGED <<now, data, commit, temps, writer, purge, history>>

-----------------------------------------------------------------------------
(* purge_blobs                                                             *)

\* No link of the blob is in force.
Unlinked == ~Kept

\* Mutant: a blob is deleted when one of its temporary links has ended.
PurgeScanOfOne ==
    /\ purge.pc = "idle"
    /\ commit \/ temps # {} \/ Linked
    /\ LET expired == {t \in temps : ~InForce(t)}
       IN  purge' = [pc |-> IF Unlinked \/ expired # {} THEN "blob" ELSE "idle",
                     unlinked |-> Unlinked, expired |-> expired]
    /\ exposed' = (exposed \/ (~Kept /\ \E w \in Writers : pc[w] # "idle"))
    /\ UNCHANGED <<now, blob, writer, overlapped, interrupted>>

\* The keys of the shard are read: the blob is to be deleted when none of its links
\* is in force, and the temporary links that have ended are to be cleared.
PurgeScan ==
    /\ purge.pc = "idle"
    /\ commit \/ temps # {} \/ Linked
    /\ LET expired == {t \in temps : ~InForce(t)}
       IN  purge' = [pc |-> IF Unlinked THEN "blob"
                            ELSE IF expired # {} THEN "keys" ELSE "idle",
                     unlinked |-> Unlinked, expired |-> expired]
    /\ exposed' = (exposed \/ (~Kept /\ \E w \in Writers : pc[w] # "idle"))
    /\ UNCHANGED <<now, blob, writer, overlapped, interrupted>>

\* delete_blob, for every blob found.
PurgeBlob ==
    /\ purge.pc = "blob"
    /\ data' = FALSE
    /\ purge' = [purge EXCEPT !.pc = "keys"]
    /\ UNCHANGED <<now, commit, temps, link, writer, history>>

\* The keys are cleared, without a look at what was written since.
PurgeKeys ==
    /\ purge.pc = "keys"
    /\ commit' = (commit /\ ~purge.unlinked)
    /\ temps' = temps \ purge.expired
    /\ purge' = NoPurge
    /\ UNCHANGED <<now, data, link, writer, history>>

\* A blob cannot be deleted, this one or another; a batch fails, or the node stops.
PurgeFails ==
    /\ purge.pc # "idle"
    /\ interrupted' = (interrupted \/ (purge.pc = "keys" /\ purge.unlinked))
    /\ purge' = NoPurge
    /\ UNCHANGED <<now, blob, writer, overlapped, exposed>>

Tick ==
    /\ now <= Horizon + Hold
    /\ now' = now + 1
    /\ UNCHANGED <<blob, writer, purge, history>>

-----------------------------------------------------------------------------
Write(w) ==
    \/ \E a \in Accounts : Put(w, a)
    \/ PutQueue(w) \/ Check(w) \/ Upload(w) \/ CommitBlob(w) \/ Link(w) \/ Leave(w)
    \/ Access(w) \/ LinkAccessed(w) \/ Unlink(w)

Next ==
    \/ \E w \in Writers : Write(w)
    \/ PurgeScan \/ PurgeBlob \/ PurgeKeys \/ PurgeFails
    \/ Tick

Spec == Init /\ [][Next]_vars

-----------------------------------------------------------------------------
(* Properties                                                              *)

Steps == {"idle", "check", "upload", "commit", "stored", "upload-queue", "link-queue",
          "access"}

Temps(accounts) == [account : accounts, until : 1..Horizon + Hold]

TypeOK ==
    /\ now \in 1..Horizon + Hold + 1
    /\ {data, commit, overlapped, interrupted, exposed} \subseteq BOOLEAN
    /\ temps \subseteq Temps(Accounts \cup {Queue}) /\ given \subseteq Temps(Accounts)
    /\ link \in [Writers -> {"none", "document", "id"}]
    /\ pc \in [Writers -> Steps]
    /\ hold \in [Writers -> Temps(Accounts \cup {Queue}) \cup {NoHold}]
    /\ \A w \in Writers : hold[w] # NoHold <=> pc[w] \notin {"idle", "access"}
    /\ purge \in [pc : {"idle", "blob", "keys"}, unlinked : BOOLEAN,
                  expired : SUBSET Temps(Accounts \cup {Queue})]
    /\ purge.pc = "blob" => purge.unlinked

\* An object never has a blob whose contents are gone, unless a purge that was to
\* delete the blob ran along with one who reserved it or with an administrator who
\* read it, a purge was interrupted, or somebody relied on a temporary link that had
\* ended or on none.
NoLostContents == overlapped \/ interrupted \/ exposed \/ (Linked => data)

\* The blob is found by a purge as long as its contents are there and nobody is at
\* work, with two of these exceptions.
NoForgottenContents ==
    overlapped \/ exposed \/
    (data /\ (\A w \in Writers : pc[w] = "idle") => commit \/ temps # {} \/ Linked)
=============================================================================
