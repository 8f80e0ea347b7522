SPECIFICATION FairSpec
CONSTANTS
    g1 = g1
    g2 = g2
    NoOne = NoOne
    Goroutines = {g1, g2}
    RouteMethods = {"GET", "POST"}
    RequestMethods = {"GET", "HEAD"}
    StrictSlashes = {TRUE, FALSE}
    MaxOps = 3
INVARIANTS
    HandlersUnlocked
    RegisteredBeforeIsServed
PROPERTIES
    UsedBeforeIsApplied
    OperationsReturn
