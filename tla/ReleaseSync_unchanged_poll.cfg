SPECIFICATION Spec
CONSTANTS
    s1 = s1
    Syncer = {s1}
    NoTag = ""
    NoNumber = NoNumber
    MaxInt = 9999
    Asset = {"deb"}
    Rule = "incremental"
    FullSyncOnce = FALSE
    KeepVersions = 1
    PgEnabled = TRUE
    PageKeys = 10
    MaxListed = 10
    Backports = FALSE
    LateAssets = FALSE
    MaxFaults = 0
    MaxCrashes = 0
    MaxOverruns = 0
    Tag <- TwoTags
    Wanted <- TwoTags
    Sem <- SemTwo
    Lex <- LexTwo
INVARIANTS
    UnchangedPollSurvives
