SPECIFICATION Spec
CONSTANTS
    N = 2
    Jobs <- CleanUpJob
    Interrupts = {"canceled", "expired"}
    AutoRemove = TRUE
INVARIANTS InterruptInResult
