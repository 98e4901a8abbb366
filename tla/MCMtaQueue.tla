----------------------------- MODULE MCMtaQueue -----------------------------
(***************************************************************************)
(* Instances of MtaQueue for TLC: a message with one or two recipients, in *)
(* the virtual queues D, the default one, and R.                           *)
(***************************************************************************)
EXTENDS MtaQueue, TLC

CONSTANTS r1, r2, D, R, w1, w2, sender

Ttl(n) == [kind |-> "ttl", n |-> n]
Attempts(n) == [kind |-> "attempts", n |-> n]
Start(q, notify, e) == [queue |-> q, due |-> 0, notify |-> notify, expires |-> e]

\* Both recipients in the default queue, expiring after two seconds.
SingleFirst == r1 :> Start(D, 1, Ttl(2)) @@ r2 :> Start(D, 1, Ttl(2))
SingleRequeue == D :> {D}
SingleExpiry == D :> Ttl(2)

\* A single recipient, which expires after one second.
OneFirst == r1 :> Start(D, Never, Ttl(1))
BriefExpiry == D :> Ttl(1)

\* One recipient in each queue; r2 is tried a bounded number of times.
MixedFirst == r1 :> Start(D, 1, Ttl(1)) @@ r2 :> Start(R, Never, Attempts(2))
MixedExpiry == D :> Ttl(1) @@ R :> Attempts(2)

\* One recipient in each queue, both with a short time to live, and a notification
\* of r1 that is due at once.
NotifiedFirst == r1 :> Start(D, 0, Ttl(1)) @@ r2 :> Start(R, Never, Ttl(1))
ShortExpiry == D :> Ttl(1) @@ R :> Ttl(1)

\* A deferred recipient of D may move to R.
Moving == D :> {D, R} @@ R :> {R}

\* What administrators edit: nothing but the status, or the retry schedule and the
\* expiry as well.
NoEdits == [due |-> {}, tries |-> {}, notify |-> {}, nth |-> {}, expires |-> {}]
FewEdits == [NoEdits EXCEPT !.due = {1}, !.tries = {0}, !.expires = {Attempts(1)}]

OneDelay == <<1>>
TwoDelays == <<1, 2>>

WorkerSymmetry == Permutations(Workers)
=============================================================================
