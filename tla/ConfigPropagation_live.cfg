CONSTANTS
    edge = edge
    mid = mid
    Servers = {edge, mid}
    Parents <- MidIsParent
    StatusCache = FALSE
    Overlap = FALSE
    ConfigFiles = {remap}
    RevalFile = reval
    RestartFiles = {}
    Jobs = {"syncds", "revalidate"}
    WaitForParents = TRUE
    UseRevalPending = TRUE
    QueueSets = {{edge, mid}}
    Requests = {"queue", "invalidate", "clear"}
    Faults = {"services"}
    MaxRevision = 1
    MaxClock = 3
    MaxFaults = 1
    None = None
SPECIFICATION FairSpec
PROPERTIES QueuedIsCleared
