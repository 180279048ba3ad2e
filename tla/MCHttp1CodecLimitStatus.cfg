SPECIFICATION Spec
CONSTANTS
    MaxHeaderSize = 5
    MaxHeaders = 2
    RequireHostHeader = TRUE
    RequestLines <- MCRequestLines
    Versions = {10, 11}
    Names <- MCNames
    Values = {"a"}
    Stoull <- MCStoull
    MaxChunk = 2
    MaxHeard = 9
INVARIANTS
    LimitAnswered
