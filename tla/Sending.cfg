SPECIFICATION FairSpec
CONSTANTS
    MaxReadings = 3
    memoryBufferSize = 2
    m_block_size = 1
    FilterOutcomes = {"pass", "dropAll", "grow", "keep"}
    SendOutcomes = {"all", "part", "none", "unacked"}
    MaxTroubles = 2
CHECK_DEADLOCK FALSE
INVARIANT RepeatBound
INVARIANT CountedOnce
PROPERTY StreamPromise
PROPERTY TaskEnds
PROPERTY EverythingSent
