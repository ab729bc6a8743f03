SPECIFICATION Spec
CONSTANTS
    ServerId = {"S1", "S2"}
    SetNo = {1, 2, 3}
    Alive <- ServerColumns
    MaxRows = 5
    MaxCalls = 5
INVARIANTS
    SetsAsWritten
    EachOnceInOrder
    LostOnlyAboveMalformed
    NumberedRowGoverns
CHECK_DEADLOCK FALSE
