SPECIFICATION FairSpec
CONSTANTS
    NumAsync = 2
    Ops = {op1, op2, op3}
    NoOp = NoOp
INVARIANTS
    TypeOK
    WorkConserving
    SingleOwner
    NoSleeperAfterCancel
PROPERTIES
    ImplementsAsyncExecution
    CloseTerminates
    OperationsAreExecuted
