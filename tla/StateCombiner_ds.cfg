\* One delivery service; no cache.
CONSTANTS
    Caches = {}
    DeliveryServices = {d1}
    Peers = {p1}
    Managers = {stat}
    StatManager = stat
    Reports <- DownOrV4
    PeerReports <- DownOrV4
SPECIFICATION TracedSpec
INVARIANTS
    NoLostWakeup
