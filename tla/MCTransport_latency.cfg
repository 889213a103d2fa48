SPECIFICATION Spec
CONSTANTS
    Zero = 2
    NoRecord = NoRecord
    t1 = t1
    t2 = t2
    Timeout = 2
    MaxRetries = 1
    BackoffFactor = 2
    Address <- Two
    Founders <- Two
    Tag = {t1, t2}
    InqueueLimit = 4
    OutqueueLimit = 4
    LinkLimit = 9
    RequestSize = {1}
    ReplySize = {1}
    LastCall = 1
    MaxReplacements = 0
    MaxTime = 3
INVARIANT
    EqualLatency
