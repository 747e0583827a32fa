SPECIFICATION Spec
CONSTANTS
    s1 = s1
    s2 = s2
    child = child
    detached = detached
    Job = job
    Services <- MCServices
    Checked <- MCChecked
    ForcePull = TRUE
    ForceRebuild = TRUE
    OwnNetwork = TRUE
    WaitServices = TRUE
    Kids <- MCKids
    Escaped <- MCEscaped
    Holding <- MCHolding
    MaxSteps = 2
    CleanWorkdir = TRUE
    MaxFaults = 2
INVARIANTS TypeOK NothingLeft 
PROPERTIES ReasonTrue JobEnds
CHECK_DEADLOCK FALSE
