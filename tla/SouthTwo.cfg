SPECIFICATION Spec
CONSTANTS
    Producers = {p1, p2}
    Thresholds = {2}
    Limits <- MCFidelity
    VectorSizes = {1}
    MaxReadings = 3
    MaxReconfigs = 1
    MaxFailures = 1
    RemoveCount = 1
    StorageOutcomes = {"ok", "fail", "unacked"}
    FilterModes = {"drop"}
    Pipelines = {"none", "filters"}
    ShutdownAllowed = TRUE
INVARIANT NoSilentLoss
INVARIANT OneResendBlock
CHECK_DEADLOCK FALSE
