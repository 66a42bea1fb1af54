SPECIFICATION FairSpec
CONSTANTS
    MaxStatements = 3
    MaxTransactions = 2
    MaxLosses = 2
    Faults <- AllFaults
INVARIANTS
    TypeOK
    AllOrNothing
    ResultIsTruthful
    SessionClean
PROPERTIES
    ImplementsAtomicTransaction
    Terminates
CHECK_DEADLOCK FALSE
