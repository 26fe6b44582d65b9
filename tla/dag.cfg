SPECIFICATION FairSpec
CONSTANTS
    MaxNodes = 4
    MaxEdges = 4
    MaxRuns = 2
CHECK_DEADLOCK FALSE
INVARIANTS
    DependenciesFirst
PROPERTIES
    RunComplete
    RunReturns
