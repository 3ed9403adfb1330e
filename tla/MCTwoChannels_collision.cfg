\* Every call ends, also when request ids collide.
SPECIFICATION FairSpec
CONSTANTS
    a1 = a1  a2 = a2
    A = A  B = B
    Call = {a1, a2, b1, b2}
    Channel = {A, B}
    ChannelOf <- MCChannelOf
    Reader = {r1}
    Threads = 2
    reqlimit = 2
    Oversized = {b2}
    None = None
PROPERTIES EveryCallSettles
CHECK_DEADLOCK FALSE
