SPECIFICATION FairSpec
CONSTANTS
    NSteps = 1
    MaxRows = 1
    BatchSize = 2
    MaxAttempts = 2
    MaxFaults = 1
    OutputKeys = {}
    JobResults = {}
    StepResults = {}
    Interrupts = {"user"}
    SlowRpc = FALSE
PROPERTIES Heartbeats CloseReturns RowsReachServer ImplementsFairReport
