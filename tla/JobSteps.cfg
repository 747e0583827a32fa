SPECIFICATION JobSpec
CONSTANTS
    N = 2
    Jobs <- EveryJob
    Interrupts = {"canceled", "expired"}
    AutoRemove = FALSE
    StepIds <- MCStepIds
    Trees <- MCTrees
    MaxFaults = 1
INVARIANTS JobTypeOK  FailuresHeard ContainerGone CommandsArrive
PROPERTY InterruptedJobEnds
