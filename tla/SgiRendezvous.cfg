SPECIFICATION FairSpec
CONSTANTS
    CPU = {m, s1, s2}
    Master = m
INVARIANTS
    TypeOK
    LockOwnership
    FlagExact
    MasksOrdered
    LastReaderSeesAll
    CountedCoresAreArmed
PROPERTIES
    SendReachesAll
    MasterInTimeIsSent
    SoleSenderWakesAll
CHECK_DEADLOCK FALSE
