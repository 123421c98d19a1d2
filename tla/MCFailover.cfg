SPECIFICATION FairSpec
CONSTANTS
    Queries = {q1, q2, q3}
    N = 3
    Dead = {1}
    Threshold = 2
INVARIANTS
    TypeOK
    UpstreamIsRotation
    FailedMeansAllTried
PROPERTIES
    InnocentNotDemoted
    CallsReturn
    DeadHeadDemoted
