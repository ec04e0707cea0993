SPECIFICATION Spec
CONSTANTS
    Schedules = {svc, job}
    Startup = {svc}
    Interval = {job}
    Exclusive = {svc, job}
    MaxRunning = 2
    TaskIds = {1, 2, 3}
    MaxRequests = 1
    MaxAttempts = 1
    MaxFaults = 1
INVARIANT OneInstance
 
INVARIANT RegisteredWhileUp
PROPERTY NoUnwantedStart
CHECK_DEADLOCK FALSE
