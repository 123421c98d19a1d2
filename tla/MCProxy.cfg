\* Lists that are edited and replaced, pauses that end, are ended or extended, and
\* responses that DNS64 rewrites.
CONSTANTS
    Handlers = {h1}
    Names = {x}
    x = x
    c1 = c1
    c2 = c2
    Clients = {c1, c2}
    Permitted = {c1}
    Queries <- MCQueries
    Dns64 = TRUE
    Rules <- OneRule
    Configured <- WithOrWithout
    Durations <- Asked
    DefaultPause = 2
    MaxList = 2
    MaxTime = 2
    Nil = Nil
SPECIFICATION FairSpec
INVARIANTS
    TypeOK
    BlockingHonoured
    PauseHonoured
    ReplyMatchesQuery
    DoHLikeDNS
PROPERTY QueriesEnd
