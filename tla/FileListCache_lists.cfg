SPECIFICATION FairSpec
CONSTANTS
    a = a
    i1 = i1
    Instance = {i1}
    Request = {a}
    Home <- SoleHome
    Shards <- Growing
    MaxShards = 2
    MaxVersion = 1
    MaxMishaps = 1
CHECK_DEADLOCK FALSE
INVARIANTS
    TypeOK
    OneFiller
    WholeUnlessOverlapped
PROPERTIES
    RequestsReturn
    EventuallyFresh
