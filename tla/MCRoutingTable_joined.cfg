SPECIFICATION Spec
CONSTANTS
    Peer <- Distinct
    KEY_LEN_BITS = 2
    BucketOf <- ByParity
    k = 2
    NoRequest = NoRequest
    NoCallback = NoCallback
    Introducer <- ZeroAddress
    MaxGossip = 1
    MaxEpoch = 1
PROPERTY
    JoinedCallbacksRun
CHECK_DEADLOCK FALSE
