SPECIFICATION LimiterSpec
CONSTANTS
    Identity = {i1, i2}
    Limit = 2
    WindowSeconds = 2
    TicksPerSecond = 2
    MaxTime = 9
INVARIANTS NeverOverLimit WaitingHelps
CHECK_DEADLOCK FALSE
