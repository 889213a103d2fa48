SPECIFICATION Spec
CONSTANTS
    KEY_LEN = 2
    BYTE = 2
INVARIANT
    NearestOfTable
