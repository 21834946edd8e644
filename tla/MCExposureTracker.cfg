SPECIFICATION Spec
CONSTANTS
    Orders <- MCOrders
    MaxExposure = 7
    MaxSymbolExposure = 4
    MaxOpenOrders = 3
INVARIANTS
    CapsHold
    CountersMatchOutstanding
