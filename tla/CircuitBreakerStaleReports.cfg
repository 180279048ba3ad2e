SPECIFICATION BreakerSpec
CONSTANTS
    Callers = {r1, r2, r3}
    FailureThreshold = 2
    SuccessThreshold = 1
    OpenTimeout = 1
    TicksPerSecond = 2
PROPERTIES
    HalfOpenLeavesByProbes
