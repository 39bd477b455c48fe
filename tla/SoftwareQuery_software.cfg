SPECIFICATION Spec
CONSTANTS
    Id = {"editor", "shell"}
    FirstPage = {"editor", "shell"}
    Scenarios <- ListsAndDetails
    Asked = {"editor"}
    Client = {c1}
    Pages = {0, 2, 3, 5}
    Sizes = {1, 0}
    Nothing = Nothing
    DefaultSize = 2
    MaxSize = 2
    IntSize = 4
    MaxFaults = 1
    MaxDetached = 2
INVARIANTS TypeOK LatestIsListed ReadsWhatWasSynced PageIsFull
PROPERTY StaleFades
