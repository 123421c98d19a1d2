CONSTANTS
    Callers = {c1, c2}
    up = up
    low = low
    v1 = v1
    v2 = v2
    Domains = {up, low}
    Suffixes <- UpAndLow
    QTypes = {"A"}
    Requests <- Adds
    Deletions <- Deletes
    FileRules <- OneFile
    Keys = {k}
    Values = {v1, v2}
    ZoneRRs <- NoZone
    Startup <- Configs
    MaxCalls = 4
    MaxRestarts = 1
    Nil = Nil
SYMMETRY Symmetric
SPECIFICATION Spec
INVARIANTS
    TypeOK
    BlocksSurvive
    DeletionsSurvive
    RecordsSurvive
