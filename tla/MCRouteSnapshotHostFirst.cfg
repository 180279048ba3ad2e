SPECIFICATION RoutesSpec
CONSTANTS
    RuleChoices <- MCHostRules
    Hosts <- MCHosts
    Paths <- MCPaths
    ClientIps <- MCIps
    MaxRules = 2
INVARIANTS
    HostComesFirst
