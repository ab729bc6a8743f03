SPECIFICATION FairSpec
CONSTANTS
    NumClusters = 2
    ClusterSize = 2
    TotalClients = 2
    Majority = 2
    InitialBalance = 2
    MaxBallot = 4
    Ordered = FALSE
    Timely = {"decision", "round"}
    MayExpire = {}
    MayCrash = {}
    ClientFaults = {}
    Quiesce = TRUE
    MaxDeaths = 1
    Txn <- SameSender
    Sets <- OneSet
INVARIANTS
    AtomicityInv
    DecidedWhenQuiet
    NoOverdraft
    ReplicasEqualWhenQuiet
    UnlockedWhenQuiet
PROPERTIES
    EveryCallAnswered
CHECK_DEADLOCK FALSE
