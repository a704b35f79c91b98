SPECIFICATION FairSpec
CONSTANTS
    CPU_NR = 3
    SlowTimer = TRUE
    PromptGpio = TRUE
INVARIANTS
    TypeOK
    OneCallbackAtATime
    TimerHasATarget
    NoInterruptDropped
    ScanIsExact
PROPERTIES
    ServedInOrder
    EveryCoreWakes
CHECK_DEADLOCK FALSE
