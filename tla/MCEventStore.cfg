SPECIFICATION Spec
CONSTANTS
    d1 = d1
    d2 = d2
    w1 = w1
    EventIds <- MCIds
    Sev <- MCSev
    NoEvent = NoEvent
    Contents = {c1}
    Garbage = Garbage
    PruneBatch = 1
    CallerSeqs = {1}
    MaxSeq = 3
SYMMETRY Symmetry
INVARIANTS
    TypeOK
    OneHome
    SeqAllocatedOnce
    NeverOvercounted
PROPERTY
    PruneRespectsPriority
