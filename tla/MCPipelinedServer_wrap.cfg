\* One executor thread, ids that wrap, two requests whose service may throw and
\* two whose response may be too long.
SPECIFICATION FairSpec
CONSTANTS
    Requests = 6
    Threads = 1
    Ids = 4
    Failing = {2, 5}
    TooLong = {3, 6}
INVARIANTS OnlyWaitingKept
PROPERTIES ImplementsMessageChannel EveryRequestAnswered
CHECK_DEADLOCK FALSE
