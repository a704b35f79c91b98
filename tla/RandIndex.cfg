SPECIFICATION Spec
CONSTANTS
    CPU = {c1}
    MODULUS = 4
INVARIANT IndexInTable
