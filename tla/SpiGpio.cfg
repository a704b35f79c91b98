SPECIFICATION FairSpec
CONSTANTS
    CPU_NR = 3
    SlowTimer = TRUE
    PromptGpio = FALSE
PROPERTY GpioTestEnds
CHECK_DEADLOCK FALSE
