SPECIFICATION Spec
CONSTANTS
    Callers = {c1, c2}
    x = x
    a1 = a1
    Nil = Nil
    Names <- MCNames
    Addrs <- MCAddrs
    Responses <- MCResponses
    LocalRRs <- OneLocalRR
    FwdTypes = {"A"}
    TicksPerSecond = 2
    TtlRange = 8
    MaxAge = 2
    MaxPause = 1
    MaxTime = 3
    OverlapAt = {3}
CONSTRAINT Overlap
SYMMETRY Symmetry
INVARIANTS
    TypeOK
    TtlHonest
    NoExpiredReply
    EntryStableInGet
PROPERTIES
    ImplementsEager
