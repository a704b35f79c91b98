SPECIFICATION FairSpec
CONSTANTS
    CPU = {c1, c2}
    Master = c1
    WIDTH = 1
    COUNT = 2
    memtests <- MCForms
INVARIANTS
    TypeOK
    AloneNeverFails
    LastWriterKeepsRegion
PROPERTIES
    KeepsTesting
