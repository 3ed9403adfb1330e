\* A call can be answered with the response to another channel's call.
SPECIFICATION Spec
CONSTANTS
    a1 = a1  a2 = a2
    A = A  B = B
    Call = {a1, b1}
    Channel = {A, B}
    ChannelOf <- MCChannelOf
    Reader = {r1}
    Threads = 2
    reqlimit = 2
    Oversized = {}
    None = None
INVARIANTS OwnResponse
CHECK_DEADLOCK FALSE
