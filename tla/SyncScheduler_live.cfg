SPECIFICATION FairSpec
CONSTANTS
    N = 2
    MaxConcurrent = 1
    Full = {}
    MaxRequests = 0
    MaxStops = 1
    MaxFaults = 1
    MaxPanics = 1
    MaxOverruns = 0
INVARIANTS
    TypeOK
    TokensBalance
PROPERTIES
    StopEnds
    EverySoftwareSynced
