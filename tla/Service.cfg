SPECIFICATION Spec
CONSTANTS
    r1 = r1
    r2 = r2
    r3 = r3
    Requests = {r1, r2, r3}
    Cap = 2
    None = None
INVARIANTS
    TypeOK
    CleanMeansDrained
    ProducersStopBeforeClose
    LogIsComplete
PROPERTIES
    ServiceEnds
    ListenerEnds
