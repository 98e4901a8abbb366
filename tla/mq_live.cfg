SPECIFICATION FairSpec
CONSTANTS
    r1 = r1
    r2 = r2
    D = D
    R = R
    w1 = w1
    w2 = w2
    sender = sender
    Rcpts = {r1, r2}
    Queues = {D, R}
    Default = D
    Workers = {w1, w2}
    NoWorker = NoWorker
    Sender = sender
    First <- NotifiedFirst
    Requeue <- Moving
    Expiry <- ShortExpiry
    Retry <- OneDelay
    Notify <- OneDelay
    NullSender = TRUE
    Faults = {}
    Edits <- NoEdits
    Never = 99
    MaxTime = 1
    MaxRequests = 2
CHECK_DEADLOCK FALSE
PROPERTIES Drained
