SPECIFICATION FairSpec
CONSTANTS
    Producers = {p1}
    Thresholds = {2}
    Limits <- MCOldNew
    VectorSizes = {1, 2}
    MaxReadings = 4
    MaxReconfigs = 1
    MaxFailures = 2
    RemoveCount = 1
    StorageOutcomes = {"ok", "fail"}
    FilterModes = {"drop", "hold"}
    Pipelines = {"empty", "filters"}
    ShutdownAllowed = TRUE
ACTION_CONSTRAINT OneDisturbance
 
PROPERTY IngestReturns
PROPERTY EveryReadingSettles
 
