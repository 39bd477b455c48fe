SPECIFICATION FairSpec
CONSTANTS
    s1 = s1
    s2 = s2
    Syncer = {s1, s2}
    NoTag = ""
    NoNumber = NoNumber
    MaxInt = 9999
    Asset = {"deb"}
    Rule = "incremental"
    FullSyncOnce = FALSE
    KeepVersions = 1
    PgEnabled = TRUE
    PageKeys = 10
    MaxListed = 2
    Backports = FALSE
    LateAssets = FALSE
    MaxFaults = 0
    MaxCrashes = 1
    MaxOverruns = 0
    Tag <- EvenTags
    Wanted <- EvenTags
    Sem <- SemEven
    Lex <- LexEven
INVARIANTS
    ObjectsRecorded
PROPERTIES
    EventuallyMirrored
    LatestCatchesUp
