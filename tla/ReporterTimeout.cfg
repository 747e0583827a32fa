SPECIFICATION Spec
CONSTANTS
    NSteps = 1
    MaxRows = 1
    BatchSize = 2
    MaxAttempts = 2
    MaxFaults = 0
    OutputKeys = {}
    JobResults = {"success"}
    StepResults = {"success"}
    Interrupts = {}
    SlowRpc = TRUE
INVARIANTS SurvivesTimeout
