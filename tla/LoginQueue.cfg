SPECIFICATION FairSpec
CONSTANTS
    a1 = a1
    a2 = a2
    b = b
    A = A
    B = B
    None = None
    Sessions = {a1, a2, b}
    Accounts = {A, B}
    Account <- MCAccount
    Promotable = {B}
    Limits = {1, 2}
    Tolerance = 1
    Width = 4
    MaxLost = 1
INVARIANTS
    TypeOK
    QueueOK
    HeldBack
PROPERTIES
    LimitRespected
    OthersFillTheServer
    IsServed
CHECK_DEADLOCK FALSE
