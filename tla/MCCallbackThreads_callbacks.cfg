\* An application thread, two clients, and the timer.
SPECIFICATION FairSpec
CONSTANTS
    c1 = c1  c2 = c2  c3 = c3  c4 = c4  a = a  b = b
    Call = {c1, c2, c3, c4}
    App = {main}
    IO = {a, b}
    Timer = timer
    Oversized = {c4}
    Programs <- MCPrograms
    none = none
INVARIANTS CallbackOnce SelfWaitTimesOut CarefulNeverStalls
PROPERTIES EveryCallEndsOrStalls
CHECK_DEADLOCK FALSE
