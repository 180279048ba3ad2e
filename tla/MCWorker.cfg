SPECIFICATION WorkerSpec
CONSTANTS
    Rate = 2
    Burst = 3
    TicksPerSecond = 5
    Grain = 2
    Rounding = 1
    MaxTime = 10
    Tasks = {t1, t2, t3}
    Keys = {k1, k2}
    Connections = {c1, c2, c3}
    MaxPerHost = 2
    IdleTimeout = 2
    None = None
    Recorders = {w1, w2}
    Observers = {o}
    Classes = {"r2xx", "r5xx"}
    MaxRecords = 2
    NoThread = NoThread
SYMMETRY WorkerSymmetry
INVARIANTS
    BucketTypeOK
    WindowConformance
    ReadyAfterRefill
    PoolTypeOK
    SoleOwner
    IdleWithinLimit
    RegistryTypeOK
PROPERTIES
    HealthyNeverDiscarded
    ReuseBeforeConnect
    RenderedTotalsAreBounded
