SPECIFICATION FairSpec
CONSTANTS
    p1 = p1
    p2 = p2
    Producers = {p1, p2}
    Cap = 2
    MaxBatch = 128
    WordSize = 1000
    MaxCalls = 2
    MaxPanics = 2
    HasPanicHandler = FALSE
    QuiesceBeforeClose = TRUE
INVARIANTS
    NoSilentLoss
    DrainedOnReturn
PROPERTIES
    AcceptedIsDelivered
    ConsumeReturns
