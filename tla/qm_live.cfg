SPECIFICATION FairSpec
CONSTANTS
    k1 = k1
    k2 = k2
    q1 = q1
    Events = {k1, k2}
    Queues = {q1}
    QueueOf <- OneQueue
    Threads = {1}
    Controls = {"pause", "refresh", "node", "scan"}
    MaxControls = 2
    Delays = {1}
    QueueRefresh = 2
    LockWait = 3
    PauseWait = 4
    Never = 9
CHECK_DEADLOCK FALSE
PROPERTIES DueHandled
