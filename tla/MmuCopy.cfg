CONSTANTS
    DEPTH = 3
    SIZE = 24
    COPIES = 2
SPECIFICATION Spec
INVARIANTS
    TypeOK
    DramIsTrained
    MapIsRight
PROPERTIES
    FaultOnlyOnLateRoot
    Finishes
CHECK_DEADLOCK FALSE
