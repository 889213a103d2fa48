SPECIFICATION FairSpec
CONSTANTS
    Zero = 2
    NoRecord = NoRecord
    t1 = t1
    t2 = t2
    Timeout = 2
    MaxRetries = 1
    BackoffFactor = 2
    Address <- Two
    Founders <- Two
    Tag = {t1, t2}
    InqueueLimit = 1
    OutqueueLimit = 2
    LinkLimit = 2
    RequestSize = {2, 3}
    ReplySize = {1, 2}
    LastCall = 2
    MaxReplacements = 1
    MaxTime = 10
INVARIANTS
    NothingLost
    BoundedExecution
    TimelyResolution
PROPERTIES
    EveryCallEnds
    QueuesDrain
