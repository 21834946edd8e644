SPECIFICATION Spec
CONSTANTS
    Durations = {1, 3}
    Feeds <- MCFeeds
    Books <- MCBooks
    Absent = Absent
    MarketEnd = 8
    LastTurn = 10
    Horizon = 1
    Warmup = 1
    MaxReturns = 2
    OfficialStale = 2
    FeedStaleAbort = 3
    Cutoff = 2
    RateWindow = 2
    MaxOrders = 2
    MaxCancels = 1
    MaxTotal = 7
    MaxPerMarket = 8
    TradeSize = 2
    EdgeMin = 4
    SpreadMax = 5
INVARIANTS
    RatesHold
    ExposureIsOpenOrders
    EndIsFinal
    ReturnsSpanTheHorizon
PROPERTY
    SilenceIsFinal
