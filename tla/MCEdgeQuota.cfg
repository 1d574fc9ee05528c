SPECIFICATION Spec
CONSTANTS
    d1 = d1
    k1 = k1
    f1 = f1
    EventIds <- QuotaIds
    Telemetry <- QuotaIds
    Sev <- QuotaSev
    FindingOf <- QuotaFindingOf
    NoEvent = NoEvent
    Genuine = Genuine
    Garbage = Garbage
    Foreign = {d1}
    Fragile = {k1}
    PruneBatch = 1
    MaxSeq = 2
    ChanCap = 1
    BatchLimit = 2
    MaxStarts = 2
CHECK_DEADLOCK FALSE
INVARIANTS
    NoLossAfterCommit
    RenumberedOnlyIfSent
PROPERTY
    RowsLeaveForAReason
