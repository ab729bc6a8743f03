SPECIFICATION Spec
CONSTANTS
    NumClusters = 1
    ClusterSize = 3
    TotalClients = 2
    Majority = 2
    InitialBalance = 2
    MaxBallot = 4
    Ordered = TRUE
    Timely = {}
    MayExpire = {}
    MayCrash = {}
    ClientFaults = {}
    Quiesce = FALSE
    MaxDeaths = 1
    Txn <- TwoTransfers
    Sets <- TwoLeaders
INVARIANTS
    ReplicasAgreeOnOrder
CHECK_DEADLOCK FALSE
