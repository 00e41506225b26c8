SPECIFICATION FairSpec
CONSTANTS
    Caches = {c1}
    Managers = {health, stat}
    StatManagers = {stat}
    OthersPolled = FALSE
    PollingProtocol = "both"
    MaxQueue = 1
    Configs <- TakenDown
    Realities <- Fine
PROPERTY
    AdminDownTakesEffect
