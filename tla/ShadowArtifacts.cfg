SPECIFICATION Spec
CONSTANTS
    Absent = Absent
    MaxRows = 2
    MaxCancels = 1
    RateWindow = 1
    MarketEnds = {2}
    MaxTurns = 3
    MaxRuns = 3
INVARIANTS
    HealthFollowsJournal
    MismatchFlagIsTrue
    PublicationIsSound
PROPERTY
    HealthMeansComplete
