SPECIFICATION Spec
CONSTANTS
    alice = alice
    bob = bob
    i1 = i1
    i2 = i2
    i3 = i3
    None = None
    Players = {alice, bob}
    Items = {i1, i2, i3}
    Unique = {i2, i3}
    TradedCount = 2
    Capacity = 2
    MaxMoney = 2
    Owned <- MCOwned
    Earned <- MCEarned
    MaxEvents = 1
INVARIANTS
    TradersPaired
PROPERTIES
    MovesWhatWasAccepted
    NothingLost
CHECK_DEADLOCK FALSE
