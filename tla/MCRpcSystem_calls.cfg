\* A client with two threads and a limit of one, a server with two threads.
SPECIFICATION SystemSpec
CONSTANTS
    chan = chan  first = first  echo = echo  long = long  newer = newer  big = big
    Call = {echo, long, newer, big}
    Channel = {chan}
    ChannelOf <- MCChannelOf
    Reader = {r1}
    AppThreads = 2
    reqlimit = 1
    Oversized = {big}
    None = None
    Service = {first}
    method_count <- MCmethod_count
    Hash32 <- MCHash32
    serviceOf <- MCserviceOf
    methodOf <- MCmethodOf
    Implemented <- MCImplemented
    Threads = 2
    MayThrow = {echo}
    TooLong = {long}
    null = null
INVARIANTS EndToEnd
PROPERTIES ImplementsRpcCalls
CHECK_DEADLOCK FALSE
