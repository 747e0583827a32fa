SPECIFICATION Spec
CONSTANTS
    NSteps = 1
    MaxRows = 2
    BatchSize = 2
    MaxAttempts = 2
    MaxFaults = 1
    OutputKeys = {o1}
    JobResults = {"skipped"}
    StepResults = {"success"}
    Interrupts = {"deadline"}
    SlowRpc = TRUE
CONSTRAINT Bounds
INVARIANTS TypeOK  NoChangeForgotten EndOfLog FinalReportComplete
CHECK_DEADLOCK FALSE
