SPECIFICATION Alone
CONSTANTS
    p1 = p1
    p2 = p2
    Producers = {p1, p2}
    Cap = 2
    MaxBatch = 128
    WordSize = 1000
    MaxCalls = 3
    MaxPanics = 1
    HasPanicHandler = TRUE
    QuiesceBeforeClose = FALSE
INVARIANTS
    TypeOK
    NoSlotRace
    SlotWaitNeverBlocks
    InOrder
PROPERTIES
    TryWriteEnds
    RefusedOnlyFullOrOvertaken
    ImplementsLogQueue
