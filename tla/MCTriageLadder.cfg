SPECIFICATION FairSpec
CONSTANTS
    Calls = {c1, c2, c3}
    Keys = {k1}
    MaxRetries = 1
    Budget = 2
    PerAttempt = 3
    Jitter = 1
    Epsilon = 1
    RedisWait = 1
    RingSize = 2
    RecentMax = 2
    NoVerdict = NoVerdict
INVARIANTS BoundedEffort ServedVerdictsTrusted RecordedOnce MetaTellsTruth
PROPERTIES RetryOnlyTransient EveryCallEnds
\* Every call is made once and then the system is done.
CHECK_DEADLOCK FALSE
