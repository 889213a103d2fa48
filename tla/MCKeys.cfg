SPECIFICATION Spec
CONSTANTS
    KEY_LEN = 2
    BYTE = 2
INVARIANTS
    PrefixIsMatchingBits
    ComparesDistances
    DeeperIsCloser
    NearestOfScanned
