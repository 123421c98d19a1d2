CONSTANTS
    Handlers = {h1, h2}
    Streams = {s1, s2}
    Addresses = {s1, s2}
    RemoteAddr <- OwnAddress
    Items <- Entries
    Zero = 0
    Capacity = 2
    MaxLog = 3
    Nil = nil
SPECIFICATION FairSpec
INVARIANTS
    TypeOK
    StreamComplete
PROPERTY InsertEnds
CHECK_DEADLOCK FALSE
