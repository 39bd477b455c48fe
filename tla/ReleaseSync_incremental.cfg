SPECIFICATION Spec
CONSTANTS
    s1 = s1
    s2 = s2
    Syncer = {s1, s2}
    NoTag = ""
    NoNumber = NoNumber
    MaxInt = 9999
    Asset = {"deb"}
    Rule = "incremental"
    FullSyncOnce = FALSE
    KeepVersions = 1
    PgEnabled = TRUE
    PageKeys = 10
    MaxListed = 2
    Backports = TRUE
    LateAssets = FALSE
    MaxFaults = 1
    MaxCrashes = 0
    MaxOverruns = 1
    Tag <- TwoTags
    Wanted <- TwoTags
    Sem <- SemTwo
    Lex <- LexTwo
SYMMETRY Syncers
INVARIANTS
    TypeOK
    MutualExclusion
    MarkCovers
PROPERTIES
    ImplementsMirror
    MarkMonotone
