SPECIFICATION Spec
CONSTANTS
    s1 = s1
    Syncer = {s1}
    NoTag = ""
    NoNumber = NoNumber
    MaxInt = 9999
    Asset = {"deb"}
    Rule = "full_historical"
    FullSyncOnce = TRUE
    KeepVersions = 1
    PgEnabled = TRUE
    PageKeys = 10
    MaxListed = 2
    Backports = TRUE
    LateAssets = TRUE
    MaxFaults = 2
    MaxCrashes = 0
    MaxOverruns = 0
    Tag <- ThreeTags
    Wanted <- TwoTags
    Sem <- SemThree
    Lex <- LexThree
INVARIANTS
    SuccessIsComplete
