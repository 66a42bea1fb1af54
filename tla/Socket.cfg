SPECIFICATION FairSpec
CONSTANTS
    small1 = small1
    small2 = small2
    large = large
    Packets <- MCPackets
    Size <- MCSize
    FirstCapacity = 1
    Capacity = 2
INVARIANTS
    InOrder
    OneWriter
PROPERTIES
    DelayedCloseDelivers
    PacketsAreDelivered
    ClosingEnds
CHECK_DEADLOCK FALSE
