SPECIFICATION FairSpec
CONSTANTS
    Mode = "replay"
    RunSeconds = FALSE
    MaxTicks = 2
    MayCross = {2}
    MaxDbErrors = 1
    TickCap = 2
    SignalCap = 1
    PersistCap = 2
    BatchSize = 2
    SymbolOf <- MCSymbolOf
    Notional = 10
    MaxExposure = 100
    MaxSymbolExposure = 5
    MaxOpenOrders = 1
PROPERTIES
    ReplayFinishes
