SPECIFICATION SystemSpec
CONSTANTS
    d1 = d1
    f1 = f1
    o1 = o1
    EventIds = {d1, f1}
    Telemetry = {d1}
    Sev <- DetectSev
    FindingOf <- DetectFindingOf
    NoEvent = NoEvent
    Genuine = Genuine
    Garbage = Garbage
    Foreign = {}
    Fragile = {}
    PruneBatch = 1
    MaxSeq = 2
    ChanCap = 1
    BatchLimit = 2
    MaxStarts = 1
    Others = {o1}
    Alerting = {f1}
    Unpersistable = {}
    NoGroup = NoGroup
    Malformed = Malformed
    Workers = {w1}
    ReadCount = 1
    RecoveryBatchSize = 1
    MaxMsgs = 2
    MaxCrashes = 1
CHECK_DEADLOCK FALSE
CONSTRAINTS
    NoShutdown
    SureCommits
    OwnTraffic
INVARIANT
    NothingLostEndToEnd
PROPERTY
    DeliversEvents
