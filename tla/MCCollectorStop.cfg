SPECIFICATION FairSpec
CHECK_DEADLOCK FALSE
CONSTANTS
    Frames <- MCFrames
    ChanCap = 1
    InnerCap = 2
    MaxRows = 2
    MaxReports = 4
PROPERTY
    CollectorsStop
