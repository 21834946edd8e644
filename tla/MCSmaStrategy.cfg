SPECIFICATION SmaSpec
CONSTANTS
    ShortWindow = 2
    LongWindow = 3
    Prices <- MCPrices
    MaxTicks = 8
CHECK_DEADLOCK FALSE
INVARIANTS
    SignalsAreTheCrossings
