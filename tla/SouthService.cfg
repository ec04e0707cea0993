SPECIFICATION FairSpec
CONSTANTS
    Changes <- MCChanges
    PollTypes0 = {"Interval", "On Demand"}
    PollV2 = TRUE
    Intervals <- MCIntervals
    FixedWait = 1
    MaxChanges = 2
    MaxAsked = 2
INVARIANT ConfigInForce
PROPERTY KeepsPolling
PROPERTY ShutdownEnds
CHECK_DEADLOCK FALSE
