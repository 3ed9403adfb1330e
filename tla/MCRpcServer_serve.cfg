\* Any services registered, two threads, methods that throw, a
\* response that is too long, a method that is unknown, one without code.
SPECIFICATION FairSpec
CONSTANTS
    echo = echo  sub = sub  div = div  newer = newer
    first = first  second = second
    Service = {first, second}
    Call = {echo, sub, div, newer}
    MayThrow = {echo, div}
    TooLong = {div}
    method_count <- MCmethod_count
    Hash32 <- MCHash32
    serviceOf <- MCserviceOf
    methodOf <- MCmethodOf
    Implemented <- MCImplemented
    Threads = 2
    null = null
INVARIANTS TypeOK ServedByNamed CrashOnlyByUnknown
PROPERTIES EveryRequestAnswered
CHECK_DEADLOCK FALSE
