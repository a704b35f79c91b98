SPECIFICATION Spec
CONSTANTS
    CPU = {c1, c2}
    Master = c1
    WIDTH = 1
    COUNT = 1
    memtests <- MCForms
INVARIANT NoFalseFail
