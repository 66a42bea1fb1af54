SPECIFICATION Spec
CONSTANTS
    m1 = m1
    m2 = m2
    World = World
    Maps = {m1, m2}
    MaxProcessed = 1
    MaxGames = 2
    MaxTeleports = 1
    MaxThrows = 1
INVARIANTS
    TypeOK
    OneUpdater
    NotLost
PROPERTIES
    InOrder
    DisconnectedIsDestroyed
CHECK_DEADLOCK FALSE
