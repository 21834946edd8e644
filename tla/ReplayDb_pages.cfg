SPECIFICATION Spec
CONSTANTS
    Original <- MCOriginal
    Limit = 2
    SampleEvery = 1
    PersistCap = 3
    MaxRows = 7
CHECK_DEADLOCK FALSE
INVARIANTS
    ReplaysInOrder
    EveryStoredRowReplayed
