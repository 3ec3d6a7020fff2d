SPECIFICATION Spec
CONSTANTS
    Calls = {c1, c2}
    Keys = {k1}
    MaxRetries = 1
    Budget = 4
    PerAttempt = 3
    Jitter = 1
    Epsilon = 1
    RedisWait = 1
    RingSize = 2
    RecentMax = 2
    NoVerdict = NoVerdict
INVARIANTS FallbackMeansProviderFailed
\* Every call is made once and then the system is done.
CHECK_DEADLOCK FALSE
