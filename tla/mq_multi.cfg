SPECIFICATION Spec
CONSTANTS
    r1 = r1
    r2 = r2
    D = D
    R = R
    w1 = w1
    w2 = w2
    sender = sender
    Rcpts = {r1, r2}
    Queues = {D, R}
    Default = D
    Workers = {w1, w2}
    NoWorker = NoWorker
    Sender = sender
    First <- MixedFirst
    Requeue <- Moving
    Expiry <- MixedExpiry
    Retry <- OneDelay
    Notify <- OneDelay
    NullSender = FALSE
    Faults = {"reply"}
    Edits <- NoEdits
    Never = 99
    MaxTime = 1
    MaxRequests = 2
SYMMETRY WorkerSymmetry
CHECK_DEADLOCK FALSE
INVARIANTS NeverStranded NoSilentLoss QuotaNotLeaked
PROPERTIES FinalStatus DeliveredOnce
