SPECIFICATION RoutesSpec
CONSTANTS
    RuleChoices <- MCNetRules
    Hosts <- MCHosts
    Paths <- MCPaths
    ClientIps <- MCIps
    MaxRules = 1
INVARIANTS
    Cidr16MatchesSegments
