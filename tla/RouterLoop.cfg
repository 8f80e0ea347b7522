SPECIFICATION FrozenSpec
CONSTANTS
    Lower <- MCLower
    NoRoute = NoRoute
    NoHost = ""
    Fresh = "fresh"
    Setups <- LoopSetups
INVARIANTS
    RedirectSettles
