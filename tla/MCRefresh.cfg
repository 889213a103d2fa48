SPECIFICATION FairSpec
CONSTANTS
    Bucket = {0, 1}
    Scanned = {0}
    k = 2
    maintenance_period = 3
    bucket_refresh_period = 2
    MaxKnown = 2
    MaxEpoch = 5
INVARIANTS
    TypeOK
    ReportedWhenDone
    StaleBucketsNoticed
PROPERTIES
    EveryRoundReported
