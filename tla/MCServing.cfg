SPECIFICATION ServingSpec
CONSTANTS
    Conns = {c1, c2}
    Requests <- MCRequests
    Reloads <- MCReloads
    Publishers = {p1, p2}
    Readers = {r1, r2}
    Snapshots = {s1, s2, s3, s4}
    Manager = Manager
    Null = Null
    Callers = {q1, q2, q3}
    FailureThreshold = 3
    SuccessThreshold = 2
    OpenTimeout = 2
    TicksPerSecond = 2
INVARIANTS
    TypeOK
    MetricsMatchConnections
    AnswerFollowsRoutes
    SnapshotTypeOK
    LoadedIsProtected
    CurrentIsAlive
    BreakerTypeOK
    CountersBelongToState
PROPERTIES
    RequestAnswered
    RetiredIsReclaimed
    IsAtomicRegister
    OpensOnlyAfterStreak
    ClosesOnlyAfterSuccesses
    CoolDownRespected
    Recovers
