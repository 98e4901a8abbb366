SPECIFICATION Spec
CONSTANTS
    r1 = r1
    r2 = r2
    D = D
    R = R
    w1 = w1
    w2 = w2
    sender = sender
    Rcpts = {r1}
    Queues = {D}
    Default = D
    Workers = {w1, w2}
    NoWorker = NoWorker
    Sender = sender
    First <- OneFirst
    Requeue <- SingleRequeue
    Expiry <- BriefExpiry
    Retry <- OneDelay
    Notify <- OneDelay
    NullSender = FALSE
    Faults = {"crash", "overrun", "write", "update", "destroy"}
    Edits <- FewEdits
    Never = 99
    MaxTime = 1
    MaxRequests = 1
SYMMETRY WorkerSymmetry
CHECK_DEADLOCK FALSE
INVARIANTS NeverStranded NoSilentLoss QuotaNotLeaked
