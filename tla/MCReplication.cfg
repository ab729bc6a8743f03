SPECIFICATION Spec
CONSTANTS
    NumClusters = 1
    ClusterSize = 3
    TotalClients = 2
    Majority = 2
    InitialBalance = 2
    MaxBallot = 2
    Ordered = TRUE
    Timely = {"sync"}
    MayExpire = {"PREPARE", "ACCEPT", "COMMIT"}
    MayCrash = {3}
    ClientFaults = {}
    Quiesce = TRUE
    MaxDeaths = 1
    Txn <- TwoTransfers
    Sets <- OneSet
INVARIANTS
    TypeOK
    AppliedOnce
    QuorumInv
    WaitersGetAnAnswer
    PollInv
    NoOrphanRound
PROPERTIES
    ImplementsLedger
CHECK_DEADLOCK FALSE
