SPECIFICATION LimiterSpec
CONSTANTS
    k1 = k1
    k2 = k2
    None = None
    Keys = {k1, k2}
    Max = 2
    Window = 3
    Second = 2
    MaxTime = 10
INVARIANTS LimiterTypeOK RetryAfterIsExact IdleKeysAreForgotten
PROPERTIES KeepsThePromise
CHECK_DEADLOCK FALSE
