SPECIFICATION Spec
CONSTANTS
    CrossTid = {1, 2}
    IntraTid = {3}
    BallotNum = {1, 2}
    Leftover <- EarlierRun
    Faults = {"open"}
    MaxEntries = 3
INVARIANTS
    IndexPointsHome
    IndexIsUnresolved
    FileTellsLog
CHECK_DEADLOCK FALSE
