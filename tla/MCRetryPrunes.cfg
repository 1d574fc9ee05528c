SPECIFICATION Spec
CONSTANTS
    d1 = d1
    k1 = k1
    f1 = f1
    EventIds <- QuotaIds
    Telemetry <- QuotaIds
    Sev <- QuotaSev
    FindingOf <- QuotaFindingOf
    NoEvent = NoEvent
    Genuine = Genuine
    Garbage = Garbage
    Foreign = {d1}
    Fragile = {}
    PruneBatch = 1
    MaxSeq = 3
    ChanCap = 1
    BatchLimit = 2
    MaxStarts = 1
CHECK_DEADLOCK FALSE
PROPERTY
    RetryNeverPrunes
