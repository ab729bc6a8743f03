SPECIFICATION Spec
CONSTANTS
    NumClusters = 2
    ClusterSize = 2
    TotalClients = 2
    Majority = 2
    InitialBalance = 2
    MaxBallot = 4
    Ordered = FALSE
    Timely = {}
    MayExpire = {}
    MayCrash = {3}
    ClientFaults = {"race"}
    Quiesce = TRUE
    MaxDeaths = 1
    Txn <- Conflicting
    Sets <- OneSet
INVARIANTS
    ProposerHoldsLocks
    AtomicOutcome
    CommitNeedsBothShards
    AnswersAreLogged
CHECK_DEADLOCK FALSE
PROPERTIES
    ImplementsAtomicCommit
