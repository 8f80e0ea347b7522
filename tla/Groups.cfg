SPECIFICATION Spec
CONSTANTS
    NoHost = NoHost
    Common = Common
    Broken = Broken
    Lower <- MCLower
    Programs <- MCPrograms
    Middleware <- MCMiddleware
INVARIANTS
    MiddlewaresAsAsked
    RoutesUnderPrefix
