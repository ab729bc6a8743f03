SPECIFICATION Spec
CONSTANTS
    Type = {"TRANSFER", "ACCEPT"}
    Call = {"transfer1", "transfer2", "accept"}
    TypeOf <- CallTypes
    Hasty = {"transfer1", "accept"}
    Object = {1, 2, 3, 4, 5}
    MaxSyncs = 1
INVARIANTS
    OneListener
    NoDanglingTag
    AnsweredOnce
    LeaksOnlyTheAbandoned
PROPERTIES
    WaitersAnswered
    RoundsEnd
CHECK_DEADLOCK FALSE
