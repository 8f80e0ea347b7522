SPECIFICATION FairSpec
CONSTANTS
    w1 = w1
    w2 = w2
    w3 = w3
    Workers = {w1, w2, w3}
    MaxRequests = 3
INVARIANTS
    ReportIsExact
    LateAtMostOneEach
PROPERTIES
    RunEnds
