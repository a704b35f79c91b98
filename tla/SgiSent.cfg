SPECIFICATION FairSpec
CONSTANTS
    CPU = {m, s1, s2}
    Master = m
PROPERTY SgiAlwaysSent
CHECK_DEADLOCK FALSE
