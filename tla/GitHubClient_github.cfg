SPECIFICATION Spec
CONSTANTS
    a = a
    b = b
    Caller = {a, b}
    Limit = 4
    StartLimit = 3
    Period = 2
    Buffer = 2
    Margin = 1
    RetryAfter = 1
    MaxRetries = 1
    MaxPages = 2
    NPages <- ThreeAndOne
INVARIANTS
    TypeOK
    NeverRefused
    ListingIsWhole
