SPECIFICATION Spec
CONSTANTS
    N = 1
    Jobs <- CleanUpJob
    Interrupts = {"canceled", "expired"}
    AutoRemove = TRUE
INVARIANTS CancelTearsDown
