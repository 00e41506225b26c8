CONSTANTS
    c1 = c1
    Caches = {c1, c2}
    Configs <- Plain
    StatPolling = TRUE
    Requests = {r1}
    RequestKinds = {"full", "raw"}
    MaxBatch = 1
    Groups = {1, 2, 3}
    DistributedPolling = FALSE
    ThisHost = "tm1"
    Snapshots <- PlainCdns
    Restarts = TRUE
SPECIFICATION Spec
INVARIANT
    ServedOnlyPolled
CONSTRAINT UntilOpened
