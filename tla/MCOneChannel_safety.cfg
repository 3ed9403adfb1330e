\* Three ordinary calls and an oversized one, two application threads, two IO
\* threads, a limit of two: refusals, overshoot, late responses, the leak.
SPECIFICATION Spec
CONSTANTS
    Call = {c1, c2, c3, big}
    Channel = {ch}
    ChannelOf <- MCChannelOf
    Reader = {r1, r2}
    Threads = 2
    reqlimit = 2
    Oversized = {big}
    None = None
SYMMETRY MCSymmetry
INVARIANTS TypeOK OwnResponse SettledIsForgotten PendingBound PromiseSatisfiedOnce
PROPERTIES SettleOnce ImplementsRpcCalls
CHECK_DEADLOCK FALSE
