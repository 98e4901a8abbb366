SPECIFICATION Spec
CONSTANTS
    Nodes = {n1, n2}
    Tasks = {1}
    Enabled <- AllEnabled
    Reports = {1}
    Capacity = 1
    BatchSize = 1
    Delays = {0}
    Results = {"done", "temporary"}
    LockExpiry = 1
    RetryDelay = 2
    MaxAttempts = 1
    Deadline = 2
    Horizon = 3
    FaultKinds = {"write"}
    Requests = {"update", "destroy", "move"}
    MaxEvents = 1
CHECK_DEADLOCK FALSE
INVARIANTS TypeOK Findable RunAlone
PROPERTIES NoReturn StraysNeedRace
SYMMETRY NodeSymmetry
