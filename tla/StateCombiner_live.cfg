CONSTANTS
    Caches = {c1}
    DeliveryServices = {}
    Peers = {p1}
    Managers = {health}
    StatManager = health
    Reports <- DownOrBoth
    PeerReports <- DownOrV4
SPECIFICATION TracedFairSpec
INVARIANTS
    TypeOK
    NoLostWakeup
    OverrideExplainsEntry
PROPERTIES
    HealthSpec
    LocalVerdictPublished
