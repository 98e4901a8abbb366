SPECIFICATION FairSpec
CONSTANTS
    Nodes = {n1}
    Tasks = {1, 2}
    Enabled <- AllEnabled
    Reports = {}
    Capacity = 2
    BatchSize = 2
    Delays = {0}
    Results = {"done", "chain", "temporary"}
    LockExpiry = 1
    RetryDelay = 1
    MaxAttempts = 1
    Deadline = 1
    Horizon = 2
    FaultKinds = {"crash", "scan", "read", "lock", "write", "unlock"}
    Requests = {}
    MaxEvents = 1
CHECK_DEADLOCK FALSE
PROPERTIES TaskEnds
