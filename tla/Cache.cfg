SPECIFICATION Spec
CONSTANTS
    Jobs = {1, 2}
    API <- Mixed
    Repos <- OneOrTwoRepos
    Keys <- OneOrTwoKeys
    Restore <- Fallback
    Prefix <- Prefixes
    N = 2
    Handlers = {h1, h2}
    Repeats = {TRUE, FALSE}
    GcEvery = 1
    KeepTemp = 0
    KeepUnused = 1
    KeepUsed = 2
    KeepOld = 1
    MaxId = 2
    MaxTime = 1
CONSTRAINT Bounds
SYMMETRY HandlersAlike
INVARIANTS TypeOK  SavedIsFound
PROPERTY GcKeepsNewest
CHECK_DEADLOCK FALSE
