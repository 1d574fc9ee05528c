SPECIFICATION FairSpec
CONSTANTS
    d1 = d1
    k1 = k1
    f1 = f1
    EventIds <- DetectIds
    Telemetry <- DetectTelemetry
    Sev <- DetectSev
    FindingOf <- DetectFindingOf
    NoEvent = NoEvent
    Genuine = Genuine
    Garbage = Garbage
    Foreign = {}
    Fragile = {}
    PruneBatch = 1
    MaxSeq = 2
    ChanCap = 1
    BatchLimit = 2
    MaxStarts = 1
CHECK_DEADLOCK FALSE
INVARIANT
    NothingPrecedesItsCommit
PROPERTIES
    StoreIsRespected
    CriticalEventuallyLeaves
    ShutdownCompletes
