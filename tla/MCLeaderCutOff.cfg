SPECIFICATION Spec
CONSTANTS
    NumClusters = 1
    ClusterSize = 3
    TotalClients = 2
    Majority = 2
    InitialBalance = 2
    MaxBallot = 3
    Ordered = TRUE
    Timely = {}
    MayExpire = {"ACCEPT", "COMMIT"}
    MayCrash = {}
    ClientFaults = {}
    Quiesce = TRUE
    MaxDeaths = 1
    Txn <- Transfers
    Sets <- LeaderCutOff
INVARIANTS
    AckedSurvives
CHECK_DEADLOCK FALSE
