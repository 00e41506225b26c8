SPECIFICATION FairSpec
CONSTANTS
    Caches = {c1}
    Managers = {health}
    StatManagers = {}
    OthersPolled = TRUE
    PollingProtocol = "both"
    MaxQueue = 1
    Configs <- Changing
    Realities <- Broken
INVARIANTS
    RemovedStaysRemoved
    AvailableOnlyAsFound
PROPERTY
    Converges
