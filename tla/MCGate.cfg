SPECIFICATION FairSpec
CONSTANTS
    Callers = {c1, c2, c3, c4}
    Settings = {0, 1, 2}
    DefaultLimit = 3
    MaxRetunes = 2
INVARIANTS
    NoSlotLeak
    QueueServed
PROPERTIES
    HandOffInOrder
    ImplementsSemaphore
    EveryAcquireReturns
