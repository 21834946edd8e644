SPECIFICATION Spec
CONSTANTS
    Mode = "stream"
    RunSeconds = TRUE
    MaxTicks = 2
    MayCross = {1, 2}
    MaxDbErrors = 1
    TickCap = 1
    SignalCap = 1
    PersistCap = 2
    BatchSize = 2
    SymbolOf <- MCSymbolOf
    Notional = 10
    MaxExposure = 100
    MaxSymbolExposure = 50
    MaxOpenOrders = 1
INVARIANTS
    TypeOK
    GaplessTicks
    SignalsAccounted
    RowsAccounted
    GracefulMeansDrained
PROPERTIES
    JournalSpec
    TrackerSpec
