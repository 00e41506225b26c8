CONSTANTS
    Requests = {request}
    Poller = poller
    ConfiguredCDN = TRUE
    DiskRetryMax = 1
    HistoryLimit = 3
    WordSize = 16
    Broken = Broken
    Faults = {"outage", "disk", "crash", "reload"}
    MaxFaults = 2
    MaxDate = 3
SPECIFICATION FairSpec
INVARIANTS
    TypeOK
    HistoryKeepsLatest
PROPERTIES
    Synchronised
    CatchesUp
