----------------------------- MODULE MailQueue -----------------------------
(***************************************************************************)
(* What the outbound queue promises about a message it has accepted: it    *)
(* keeps the message, with its text, until every recipient has either been *)
(* accepted by a next hop or been reported to the sender, one of the two   *)
(* and once, and then the message leaves for good.  A next hop that        *)
(* accepts a recipient may not be heard: the recipient stays, in doubt,    *)
(* and ends like any other.  Nobody is in doubt who has ended.             *)
(*                                                                         *)
(* MtaQueue keeps this promise of a message with a return path, with one   *)
(* virtual queue, while leases hold, no administrator steps in and no      *)
(* worker loses its result.                                                *)
(***************************************************************************)
CONSTANT Rcpts

VARIABLES
    place,  \* where the message is
    fate,   \* what is known to have become of each recipient
    doubt   \* recipients some next hop has accepted without being heard

Init ==
    /\ place = "new"
    /\ fate = [r \in Rcpts |-> "pending"]
    /\ doubt = {}

Accept ==
    /\ place = "new" /\ place' = "queued"
    /\ UNCHANGED <<fate, doubt>>

\* Some recipients are delivered, some are returned to the sender, and of some
\* that stay it is no longer known that nobody has them.
Settle ==
    /\ place = "queued"
    /\ fate' \in [Rcpts -> {"pending", "delivered", "returned"}]
    /\ \A r \in Rcpts : fate[r] # "pending" => fate'[r] = fate[r]
    /\ doubt \subseteq doubt'
    /\ \A r \in doubt' \ doubt : fate[r] = "pending" /\ fate'[r] = "pending"
    /\ doubt' \subseteq Rcpts
    /\ UNCHANGED place

Leave ==
    /\ place = "queued" /\ place' = "gone"
    /\ \A r \in Rcpts : fate[r] # "pending"
    /\ UNCHANGED <<fate, doubt>>

Next == Accept \/ Settle \/ Leave

Spec == Init /\ [][Next]_<<place, fate, doubt>>
=============================================================================
