SPECIFICATION FrozenSpec
CONSTANTS
    Lower <- MCLower
    NoRoute = NoRoute
    NoHost = ""
    Fresh = "fresh"
    Setups <- SlashSetups
INVARIANTS
    FrozenParity
