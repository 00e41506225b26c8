CONSTANTS
    Requests = {request}
    Poller = poller
    ConfiguredCDN = TRUE
    DiskRetryMax = 1
    HistoryLimit = 2
    WordSize = 16
    Broken = Broken
    Faults = {"outage", "crash"}
    MaxFaults = 2
    MaxDate = 1
SPECIFICATION FairSpec
PROPERTY ComesUpFromBackup
