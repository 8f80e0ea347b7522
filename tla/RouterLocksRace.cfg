SPECIFICATION Spec
CONSTANTS
    g1 = g1
    g2 = g2
    NoOne = NoOne
    Goroutines = {g1, g2}
    RouteMethods = {"GET"}
    RequestMethods = {"GET"}
    StrictSlashes = {TRUE}
    MaxOps = 2
INVARIANTS
    NoTrailingRace
