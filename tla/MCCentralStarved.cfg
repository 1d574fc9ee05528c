SPECIFICATION FairSpec
CONSTANTS
    e1 = e1
    e2 = e2
    Events = {e1, e2}
    Alerting = {e1}
    Unpersistable = {e2}
    NoGroup = NoGroup
    Malformed = Malformed
    Workers = {w1}
    ReadCount = 2
    RecoveryBatchSize = 1
    MaxMsgs = 2
    MaxCrashes = 0
CHECK_DEADLOCK FALSE
PROPERTY
    PendingIsRetried
