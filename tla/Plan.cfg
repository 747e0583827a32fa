SPECIFICATION FairSpec
CONSTANTS
    Plans = {"task", "called", "inner"}
    Root = "task"
    Jobs = {1, 2, 3, 4, 5, 6}
    PlanOf <- PlansOfJobs
    StageOf <- StagesOfJobs
    NStages <- Stages
    Combos <- CombosOfJobs
    MaxParallel <- WorkersOfJobs
    StageParallel = 2
    Callee <- Calls
INVARIANTS TypeOK FailureKept StagesInOrder EndSound
PROPERTY PlanEnds
CHECK_DEADLOCK FALSE
