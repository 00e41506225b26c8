CONSTANTS
    c1 = c1
    Caches = {c1, c2}
    Configs <- Lasting
    StatPolling = FALSE
    Requests = {r1, r2}
    RequestKinds = {"full"}
    MaxBatch = 1
    Groups = {1, 2, 3}
    DistributedPolling = TRUE
    ThisHost = "tm1"
    Snapshots <- LastingCdns
    Restarts = FALSE
SPECIFICATION FairSpec
INVARIANTS
    TypeOK
    ServedOnlyPolled
    DisjointSubsets
PROPERTIES
    AppliedAsConfigured
    StartupEnds
