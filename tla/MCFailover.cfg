SPECIFICATION Spec
CONSTANTS
    NumClusters = 1
    ClusterSize = 3
    TotalClients = 2
    Majority = 2
    InitialBalance = 2
    MaxBallot = 4
    Ordered = TRUE
    Timely = {}
    MayExpire = {"SYNC", "DISCONNECT"}
    MayCrash = {}
    ClientFaults = {}
    Quiesce = TRUE
    MaxDeaths = 1
    Txn <- Transfers
    Sets <- FailoverSets
INVARIANTS
    ReplicasAgreeOnOrder
    AppliedOnce
    AckedSurvives
PROPERTIES
    ImplementsLedger
CHECK_DEADLOCK FALSE
