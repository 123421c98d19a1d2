CONSTANTS
    Handlers = {h1}
    Streams = {s1, s2}
    Addresses = {s1, s2}
    RemoteAddr <- OwnAddress
    Items <- Entries
    Zero = 0
    Capacity = 2
    MaxLog = 2
    Nil = nil
SPECIFICATION Spec
INVARIANT
    ThreadSafe
CHECK_DEADLOCK FALSE
