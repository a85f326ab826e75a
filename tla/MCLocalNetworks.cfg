SPECIFICATION MCSpec
CONSTANTS
    p1 = p1
    p2 = p2
    k1 = k1
    k2 = k2
    k3 = k3
    Paths = {p1, p2}
    Contents = {a, b}
    NoFile = none
    Registrations <- Register4
    Stored <- Earlier
    Views <- View4
    Deletions <- Delete2
    RemovesFile <- RemoveOne
    PathOf <- PathOfCall
    TTL = 1
    MaxSize = 1
    MaxEdits = 2
    MaxTime = 3
    MaxLoad = 1
SYMMETRY Interchangeable
CHECK_DEADLOCK FALSE
INVARIANTS CacheIsBounded ShownIsRecent RecordsAgree FilesStay
PROPERTIES ViewsGoForward
