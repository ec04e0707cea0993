SPECIFICATION FairSpec
CONSTANTS
    Assets = {"fan", "Fan"}
    AssetKeys = {"FAN"}
    upper <- MCUpper
    Options = {"asset", "service", "both"}
    FailThreshold = 1
    InitialFails <- MCInitialFails
    CreateOutcomes = {"ok", "error"}
    UpdateOutcomes = {"ok", "error", "exception", "lost"}
    MaxStored = 2
    MaxDiscarded = 1
    MaxValue = 6
    MaxOptions = 1
    MaxStorageFailures = 2
INVARIANT CountedOnce
PROPERTY PendingIsFlushed
