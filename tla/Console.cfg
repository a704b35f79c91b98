SPECIFICATION FairSpec
CONSTANTS
    CPU = {c1, c2}
    Message <- MCMessage
    MAX_CALLS = 2
INVARIANTS
    TypeOK
    Exclusive
    NoOverrun
PROPERTIES
    WholeLines
    CallsReturn
CHECK_DEADLOCK FALSE
