SPECIFICATION PoolSpec
CONSTANTS
    Tasks = {t1, t2, t3}
    Keys = {k1, k2}
    Connections = {c1, c2, c3}
    MaxPerHost = 2
    IdleTimeout = 2
    None = None
SYMMETRY Symmetry
PROPERTY NoDeadReuse
