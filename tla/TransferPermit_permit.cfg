\* Four transfers and two permits: two wait at once, none symmetric to another
\* (liveness and refinement are checked).
SPECIFICATION Spec
CONSTANTS
    t1 = t1
    t2 = t2
    t3 = t3
    t4 = t4
    Transfers <- MCTransfers
    MAX = 2
INVARIANTS
    CapKept
    NoLostWakeup
PROPERTIES
    EveryTransferEnds
    ImplementsSemaphore
\* all transfers finished
CHECK_DEADLOCK FALSE
