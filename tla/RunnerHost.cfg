SPECIFICATION HostSpec
CONSTANTS
    t1 = t1
    t2 = t2
    tok = tok
    l1 = l1
    l2 = l2
    Tasks <- MCTasks
    Tokens <- MCTokens
    TokenOf <- MCTokenOf
    CleanupAge = 2
    CleanupEvery = 1
    MaxFaults = 2
    Jobs <- MCTasks
    MaxVersion = 2
    Patchable <- MCPatchable
    Offline = FALSE
    MaxFailures = 1
    MaxCrashes = 1
    Procs <- MCTasks
    LabelSets <- MCLabelSets
    Unset = unset
    Configured = unset
    MaxIds = 2
INVARIANTS HostTypeOK TokenFollowsTask LiveJobsLeftAlone SharedFilesSound
PROPERTIES NothingStays
CHECK_DEADLOCK FALSE
