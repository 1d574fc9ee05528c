SPECIFICATION FairSpec
CHECK_DEADLOCK FALSE
CONSTANTS
    Frames <- MCFrames
    ChanCap = 2
    InnerCap = 2
    MaxRows = 2
    MaxReports = 5
INVARIANTS
    NoSendOnClosed
    NothingSkipped
    SnapshotsAreHonest
    DecoderStaysInFrame
    EvidenceIsSound
PROPERTY
    StopReturns
