SPECIFICATION Spec
CONSTANTS
    Threads = {t1, t2}
    ProcessOf <- Together
    Functions = {"updateTable"}
    Keys = {"a"}
    Urls = {"u"}
    Subscriptions = {}
    MAX_REFUSALS = 3
    PoolSize = 2
    MaxEntries = 16
    MaxCalls = 3
    MaxFaults = 0
    MaxChanges = 0
INVARIANT OkMeansApplied
CHECK_DEADLOCK FALSE
