CONSTANTS
    p1 = p1  p2 = p2  p3 = p3
    Peers = {p1, p2, p3}
    Configs <- Changing
    QuorumMin = 2
SPECIFICATION FairSpec
INVARIANTS
    TypeOK
    PeerCountIsOnline
PROPERTIES
    PeeringConverges
    IsolationWithdraws
    RecoveryResumes
