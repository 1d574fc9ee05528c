SPECIFICATION FairSpec
CHECK_DEADLOCK FALSE
CONSTANTS
    Pids = {1, 2}
    MaxInstances = 2
    ChanCap = 1
INVARIANTS
    NoFalseExit
    StreamMatchesState
    PidHandover
PROPERTIES
    StopCompletes
    ExitReported
