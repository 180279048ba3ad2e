SPECIFICATION RequestSpec
CONSTANTS
    MaxHeaderSize = 5
    MaxHeaders = 2
    RequireHostHeader = TRUE
    RequestLines <- MCRequestLines
    Versions = {10, 11}
    Names <- MCNames
    Values = {"a"}
    Stoull <- MCStoull
    MaxChunk = 2
    MaxHeard = 9
    RuleChoices <- MCRules
    Hosts <- MCHosts
    Paths <- MCPaths
    ClientIps <- MCIps
    MaxRules = 3
INVARIANTS
    TypeOK
    ContextFaithful
    LimitsExact
    
    RoutesTypeOK
    TrieIsCurrent
    MatchIsBest
