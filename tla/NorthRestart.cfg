SPECIFICATION FairSpec
CONSTANTS
    MaxReadings = 3
    m_blockSize = 2
    m_prefetchLimit = 2
    StreamUpdates = {1}
    MaxWaitCount = 0
    FilterOutcomes = {"pass", "dropAll", "replace"}
    SendOutcomes = {"all", "part", "none", "unacked"}
    ShutdownAllowed = TRUE
    MaxFaults = 1
    MaxRestarts = 1
CHECK_DEADLOCK FALSE
INVARIANT SentInOrder
INVARIANT PluginExclusive
PROPERTY StreamPromise
PROPERTY EverythingSent
PROPERTY PositionCatchesUp
PROPERTY NorthStops
