CONSTANTS
    MaxStarts = 2
    a = a
    b = b
    c = c
    both = both
    sock1 = sock1
    sock2 = sock2
    pem = pem
    Values = {a, b, c, both, sock1, sock2, pem}
    Lines = {1, 2, 3, 4, 5, 6, 7, 8, 9}
    CommandLine <- MCLines
    Invalid <- Rejected
    ParseAddr <- ParseValue
    Addrs = {a, b, c}
    Paths = {sock1, sock2}
    Unavailable <- NotHere
    DefaultListen <- ListenB
    DefaultUpstream <- Upstream
    DefaultApiBind = a
    SyslogUp = TRUE
    Nil = Nil
    Unreadable = Unreadable
SPECIFICATION FairSpec
INVARIANTS
    TypeOK
    NoEmptyMux
    FatalHasCause
    SocketFileStays
PROPERTY ServesOrEnds
CHECK_DEADLOCK FALSE
