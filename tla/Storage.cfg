SPECIFICATION FairSpec
CONSTANTS
    Threads = {t1, t2}
    ProcessOf <- Apart
    Functions = {"readingAppend", "insertTable"}
    Keys = {"a"}
    Urls = {"u"}
    Subscriptions <- Mixed
    MAX_REFUSALS = 1
    PoolSize = 2
    MaxEntries = 1
    MaxCalls = 2
    MaxFaults = 2
    MaxChanges = 2
ACTION_CONSTRAINT Focus
INVARIANT AppliedOnce
INVARIANT OkMeansApplied
 
PROPERTY OwedSent
CHECK_DEADLOCK FALSE
