SPECIFICATION FairSpec
CONSTANTS
    N = 2
    CoreCounts = {1, 2}
    Conns = {c1, c2}
    MaxStarts = 2
    MaxAcceptErrors = 1
INVARIANTS
    TypeOK
    NoTerminate
    FirstStartServes
    QuietAfterShutdown
PROPERTIES
    ShutdownCompletes
    BacklogAccepted
