SPECIFICATION FrozenSpec
CONSTANTS
    Lower <- MCLower
    NoRoute = NoRoute
    NoHost = ""
    Fresh = "fresh"
    Setups <- MCSetups
INVARIANTS
    SearchFindsBest
    StaticMapAgrees
    AcceptedIsReachable
    AllowIsTrue
    RegisteredIsServed
    CaseModeUniform
    FrozenParity
    FrozenReachable
PROPERTIES
    FailedRegistrationInvisible
    ServedStaysServed
