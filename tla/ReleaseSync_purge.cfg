SPECIFICATION Spec
CONSTANTS
    s1 = s1
    Syncer = {s1}
    NoTag = ""
    NoNumber = NoNumber
    MaxInt = 9999
    Asset = {"deb"}
    Rule = "latest_only"
    FullSyncOnce = FALSE
    KeepVersions = 1
    PgEnabled = TRUE
    PageKeys = 2
    MaxListed = 2
    Backports = TRUE
    LateAssets = FALSE
    MaxFaults = 1
    MaxCrashes = 1
    MaxOverruns = 0
    Tag <- ThreeTags
    Wanted <- ThreeTags
    Sem <- SemThree
    Lex <- LexThree
INVARIANTS
    RecordsBacked
PROPERTIES
    KeepsNewest
