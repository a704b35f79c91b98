CONSTANTS
    TEST_PORT = 0
    CLK_HZ = 24000000
    RxDepth = 2
    TxDepth = 2
    ItLines = 1
    OwnFrame = 1
    MaxChars = 3
    MaxModem = 1
SPECIFICATION Spec
INVARIANTS TypeOK EchoIsComplete ReportIsEarned
PROPERTIES Settles ReceiverIsServed
CHECK_DEADLOCK FALSE
