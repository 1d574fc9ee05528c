SPECIFICATION FairSpec
CONSTANTS
    e1 = e1
    e2 = e2
    Events = {e1, e2}
    Alerting = {e1}
    Unpersistable = {e2}
    NoGroup = NoGroup
    Malformed = Malformed
    Workers = {w1}
    ReadCount = 2
    RecoveryBatchSize = 2
    MaxMsgs = 2
    MaxCrashes = 1
CHECK_DEADLOCK FALSE
INVARIANTS
    TypeOK
    NothingAckedUnsettled
    EffectsHappenOnce
PROPERTY
    PendingIsRetried
