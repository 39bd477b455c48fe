SPECIFICATION Spec
CONSTANTS
    Client = {c1, c2}
    Refresher = {r}
    Worker = {w}
    QueueSize = 1
    Expires <- Inputs
    DefaultValid = 1
    MaxValid = 2
    Fresh = 1
    LockTtl = 1
    Nothing = Nothing
    NoUrl = NoUrl
    Second = 2
    MaxDuration = 8
    MaxHeld = 1
    MaxOverruns = 1
    MaxFaults = 1
INVARIANTS TypeOK HandedOutAlive OneMaker
PROPERTIES SomeoneIsServed
