SPECIFICATION Spec
CONSTANTS
    w1 = w1
    w2 = w2
    w3 = w3
    None = None
    Workers = {w1, w2, w3}
    Waiters <- MCWaiters
    Requests <- MCRequests
    LastPhase = 2
    MaxBatch = 2
    MaxThrows = 1
INVARIANTS
    TypeOK
    PhasesSeparated
PROPERTIES
    WaitMeansDone
    WaitReturns
CHECK_DEADLOCK FALSE
