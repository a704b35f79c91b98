SPECIFICATION FairSpec
CONSTANTS
    INT_NUM = 4
    NUM_CORES = 2
    POLLS = 2
    Hardware <- MCHardware
INVARIANTS
    TypeOK
    FailureIsSilent
    MappedAreEnabled
PROPERTIES
    RingIsChannel
    OnlyLastKeepsComing
