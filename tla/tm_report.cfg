SPECIFICATION FairSpec
CONSTANTS
    Nodes = {n1}
    Tasks = {1, 2}
    Enabled <- AllEnabled
    Reports = {1}
    Capacity = 2
    BatchSize = 2
    Delays = {0}
    Results = {"done", "chain", "temporary", "retry", "permanent"}
    LockExpiry = 1
    RetryDelay = 1
    MaxAttempts = 1
    Deadline = 1
    Horizon = 2
    FaultKinds = {}
    Requests = {"move"}
    MaxEvents = 1
CHECK_DEADLOCK FALSE
PROPERTIES TaskEnds
