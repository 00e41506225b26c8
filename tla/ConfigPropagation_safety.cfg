CONSTANTS
    edge = edge
    mid = mid
    Servers = {edge}
    Parents <- NoParents
    StatusCache = TRUE
    Overlap = TRUE
    ConfigFiles = {plugin}
    RevalFile = reval
    RestartFiles = {plugin}
    Jobs = {"syncds", "revalidate"}
    WaitForParents = TRUE
    UseRevalPending = TRUE
    QueueSets = {{edge}}
    Requests = {"queue", "invalidate", "dequeue"}
    Faults = {"traffic_ops", "response", "audit", "write", "certificate", "services", "crash"}
    MaxRevision = 1
    MaxClock = 3
    MaxFaults = 2
    None = None
SPECIFICATION Spec
INVARIANTS
    TypeOK
    AcknowledgedIsApplied
    AcknowledgedIsLoaded
PROPERTIES DeliverySpec
