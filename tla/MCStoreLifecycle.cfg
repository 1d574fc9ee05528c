SPECIFICATION FairSpec
CONSTANTS
    Rows = {r1, r2}
    NoDb = NoDb
    OldTables <- MCOldTables
    MigrateLimit = 1
    IntMax = 11
    Counts = {8, 9, 11}
    RetryAfters = {0, 86401}
    Jitters = {9}
    MaxIds = 2
INVARIANTS
    TypeOK
    IdentityIsKept
    NothingIsReplaced
    RetryTimesAreKept
    BackoffMatchesFormula
PROPERTY
    CloseReturns
