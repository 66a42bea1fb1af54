SPECIFICATION Spec
CONSTANTS
    MaxStatements = 3
    MaxTransactions = 2
    MaxLosses = 2
    Faults = {"lost"}
INVARIANT SuccessMeansDurable
CHECK_DEADLOCK FALSE
