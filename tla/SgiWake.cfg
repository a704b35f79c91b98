SPECIFICATION FairSpec
CONSTANTS
    CPU = {m, s1, s2}
    Master = m
PROPERTY SentWakesAll
CHECK_DEADLOCK FALSE
