\* Three overlapping calls and a pool of two: it is empty, partly filled and full.
CONSTANTS
    Calls = {q1, q2, q3}
    Conns = {c1, c2, c3}
    PoolSize = 2
    Nil = Nil
SPECIFICATION FairSpec
INVARIANTS
    TypeOK
    ConnAccounted
    CheckNonDestructive
    AnswerMatches
PROPERTY CallsReturn
CHECK_DEADLOCK FALSE
