SPECIFICATION RateSpec
CONSTANTS
    Callers = {r1, r2}
    FailureThreshold = 3
    SuccessThreshold = 1
    OpenTimeout = 1
    TicksPerSecond = 1
    Window = 6
    ErrorRate = 50
INVARIANTS
    OpensOnErrorRate
