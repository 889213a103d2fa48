SPECIFICATION Spec
CONSTANTS
    Peer <- Reused
    KEY_LEN_BITS = 2
    BucketOf <- ByParity
    k = 2
    NoRequest = NoRequest
    NoCallback = NoCallback
    Introducer <- ZeroAddress
    MaxGossip = 1
    MaxEpoch = 1
INVARIANTS
    TypeOK
    BucketBound
    PingTracked
PROPERTIES
    OldContactsStay
    FailureForgets
    SeenOrderKept
    ListedOnceKept
CHECK_DEADLOCK FALSE
