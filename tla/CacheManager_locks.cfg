SPECIFICATION FairSpec
CONSTANTS
    loader = loader
    a = a
    b = b
    nobody = nobody
    k1 = k1
    k2 = k2
    Caller = {loader, a, b}
    Loader = loader
    Nobody = nobody
    Key = {k1, k2}
    Capacity = 1
CHECK_DEADLOCK FALSE
INVARIANTS
    TypeOK
    SizeTruthful
    OnlyGetStatsDeadlocks
PROPERTIES
    CallsReturn
    EmbraceLasts
