SPECIFICATION FairSpec
CONSTANTS
    Tasks = {t1, t2}
    Runs = {r1, r2}
    Capacity = 2
    HealthResults = {TRUE, FALSE}
    MaxFaults = 1
    Redeliver = TRUE
    NoTask = NoTask
INVARIANTS TypeOK CapacityRespected ShutdownOrder
PROPERTIES NoRequestAfterStop PollingEnds TaskFetched
