SPECIFICATION FairSpec
CONSTANTS
    Streams = {1, 2}
    Configs <- MCConfigs
    ExcludedChoices <- MCExcluded
    purgeBlockSize = 2
    Word = 32
    MaxReadings = 5
    MaxRuns = 1
    MaxEvents = 2
CHECK_DEADLOCK FALSE
 
 
PROPERTY KeepsNewest
 
