SPECIFICATION Spec
CONSTANTS
    k1 = k1
    k2 = k2
    q1 = q1
    Events = {k1, k2}
    Queues = {q1}
    QueueOf <- OneQueue
    Threads = {1, 2}
    Controls = {"refresh", "reload", "stop", "node", "scan", "write"}
    MaxControls = 1
    Delays = {1}
    QueueRefresh = 2
    LockWait = 3
    PauseWait = 4
    Never = 9
SYMMETRY EventSymmetry
CHECK_DEADLOCK FALSE
INVARIANTS TypeOK InFlightExact LocksHaveWorkers WakesInTime
PROPERTIES WithinThreads
