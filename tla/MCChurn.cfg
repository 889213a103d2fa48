SPECIFICATION Spec
CONSTANTS
    Address <- Three
    Zero = 2
    Founders <- Three
    Value = {1}
    NoEntry = NoEntry
    k = 1
    maintenance_period = 2
    MaxEpoch = 6
    Node = {0, 1, 2}
    Home <- ZeroBetween
    NoFinder = NoFinder
    InitTicks = 1
    ChurnPeriod = 2
INVARIANTS
    TypeOK
    NotHeldTooLong
    Survives
    FetchHasFlag
    OnlyFoundersStick
PROPERTIES
    Handover
