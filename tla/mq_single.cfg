SPECIFICATION Spec
CONSTANTS
    r1 = r1
    r2 = r2
    D = D
    R = R
    w1 = w1
    w2 = w2
    sender = sender
    Rcpts = {r1, r2}
    Queues = {D}
    Default = D
    Workers = {w1, w2}
    NoWorker = NoWorker
    Sender = sender
    First <- SingleFirst
    Requeue <- SingleRequeue
    Expiry <- SingleExpiry
    Retry <- TwoDelays
    Notify <- OneDelay
    NullSender = FALSE
    Faults = {"reply"}
    Edits <- NoEdits
    Never = 99
    MaxTime = 3
    MaxRequests = 2
SYMMETRY WorkerSymmetry
CHECK_DEADLOCK FALSE
INVARIANTS TypeOK HonestBounces QuotaBalanced
PROPERTIES NoResurrection KeepsPromise
