SPECIFICATION Spec
CONSTANTS
    r1 = r1
    r2 = r2
    Requests = {r1, r2}
    Objects = {1, 2}
    Nobody = Nobody
    Setups <- QuickStartSetups
INVARIANT
    ParamReachesHandler
