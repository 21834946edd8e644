SPECIFICATION Spec
CONSTANTS
    Tokens = {"t1", "t2"}
    Listings <- MCListings
    Absent = Absent
    Malformed = Malformed
    DateOnly = DateOnly
    MaxProbes = 2
    MaxRetries = 1
    MinExpiry = 3
    ReadyTtl = 3
    RetryableTtl = 1
    NotReadyTtl = 2
    Delays = {1, 2}
    LastMoment = 8
    DepthNotionalMin = 500000
    DepthQtyMin = 100
    SpreadMax = 500
    TrueBooks <- MCBooks
    KalshiEncodings <- MCEncodings
    BadAnswers <- MCBadAnswers
    BadBooks <- MCBadBooks
    Metas <- MCMetas
    KnownTokens <- MCKnown
    MaxAttempts = 2
    OpenBuffer = 1
INVARIANTS
    VerdictIsRecent
    AcceptedBooksAreTrue
    GoodBooksAreAccepted
    PassIsEarned
    InputsAreFounded
PROPERTY
    SelectionIsBest
