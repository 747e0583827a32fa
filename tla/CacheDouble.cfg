SPECIFICATION Spec
CONSTANTS
    Jobs = {1, 2}
    API <- BothV2
    Repos <- OneRepo
    Keys <- OneKey
    Restore <- Fallback
    Prefix <- Prefixes
    N = 2
    Handlers = {h1, h2}
    Repeats = {FALSE}
    GcEvery = 1
    KeepTemp = 0
    KeepUnused = 1
    KeepUsed = 2
    KeepOld = 1
    MaxId = 2
    MaxTime = 0
INVARIANT BlobMatchesSize
CHECK_DEADLOCK FALSE
