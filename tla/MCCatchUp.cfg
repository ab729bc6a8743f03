SPECIFICATION FairSpec
CONSTANTS
    NumClusters = 1
    ClusterSize = 3
    TotalClients = 2
    Majority = 2
    InitialBalance = 2
    MaxBallot = 3
    Ordered = TRUE
    Timely = {}
    MayExpire = {}
    MayCrash = {3}
    ClientFaults = {"crash"}
    Quiesce = TRUE
    MaxDeaths = 1
    Txn <- Transfers
    Sets <- LeftBehind
INVARIANTS
    ReplicationInv
    AgreeUnlessRepeated
    DurableUnlessRepeated
PROPERTIES
    BallotsGrowUnlessRepeated
    EveryCallAnswered
CHECK_DEADLOCK FALSE
