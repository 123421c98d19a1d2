\* The API adds a local record while a query for it is with the upstream.
CONSTANTS
    Handlers = {h1}
    Names = {x}
    x = x
    c1 = c1
    c2 = c2
    Clients = {c1}
    Permitted = {c1}
    Queries <- PlainQueries
    Dns64 = FALSE
    Rules <- RuleA
    Configured <- WithRuleA
    Durations = {1}
    DefaultPause = 1
    MaxList = 1
    MaxTime = 1
    Nil = Nil
SPECIFICATION Spec
PROPERTY PermanentStays
