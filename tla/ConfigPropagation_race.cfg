CONSTANTS
    edge = edge
    mid = mid
    Servers = {edge}
    Parents <- NoParents
    StatusCache = FALSE
    Overlap = FALSE
    ConfigFiles = {remap}
    RevalFile = reval
    RestartFiles = {}
    Jobs = {"syncds"}
    WaitForParents = FALSE
    UseRevalPending = TRUE
    QueueSets = {{edge}}
    Requests = {"queue"}
    Faults = {}
    MaxRevision = 2
    MaxClock = 3
    MaxFaults = 0
    None = None
SPECIFICATION Spec
INVARIANT AcknowledgedIsCurrent
