SPECIFICATION Spec
CONSTANTS
    N = 1
    MaxConcurrent = 1
    Full = {1}
    MaxRequests = 1
    MaxStops = 1
    MaxFaults = 1
    MaxPanics = 1
    MaxOverruns = 2
INVARIANTS
    OneJobPerSoftware
    StopWaits
    SwitchIsEarned
