\* Two threads make two calls; hosts come, and the strategy changes, while
\* they do.
SPECIFICATION FairSpec
CONSTANTS
    c1 = c1  c2 = c2
    Call = {c1, c2}
    Misnamed = {c1}
    Oversized = {c1}
    OtherError = {c2}
    hashCode <- MChashCode
    MaxHosts = 2
    MaxChanges = 2
    none = none
INVARIANTS EvenSpread CrashOnlyByStrategy
PROPERTIES AddedIsAvailable EveryCallEnds ImplementsRpcCalls
CHECK_DEADLOCK FALSE
