SPECIFICATION FairSpec
CONSTANTS
    NumAsync = 2
    Ops = {op1, op2}
    NoOp = NoOp
PROPERTY SavesAreExecuted
