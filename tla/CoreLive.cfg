SPECIFICATION FairSpec
CONSTANTS
    Schedules = {svc, job}
    Startup = {svc}
    Interval = {}
    Exclusive = {svc, job}
    MaxRunning = 2
    TaskIds = {1, 2, 3}
    MaxRequests = 2
    MaxAttempts = 1
    MaxFaults = 1
ACTION_CONSTRAINT Calm
 
PROPERTY RestartsUnlessStillborn
 
CHECK_DEADLOCK FALSE
