SPECIFICATION FairSpec
CONSTANTS
    Kinds = {"real", "mock"}
    SourceCount = 2
    PingEvery <- MCPingEvery
    KeepAlive <- MCKeepAlive
    Pause <- MCPause
    SampleEvery = 3
    MessageTicks = {0, 1, 2}
    MaxFlips = 3
INVARIANTS
    PingsInTime
PROPERTIES
    ShutdownEnds
    Recovers
    SamplingOutlivesConnections
