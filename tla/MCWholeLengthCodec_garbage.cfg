\* Every branch of decode, including those that need bytes that are no frame.
SPECIFICATION FairSpec
CONSTANTS
    Base = 3
    lengthFieldLength = 2
    networkByteOrder = FALSE
    prependAdjustment = 0
    lengthIncludesLengthField = TRUE
    maxFrameLength = 4
    lengthFieldOffset = 0
    lengthAdjustment <- MCAdjustment
    initialBytesToStrip = 3
    Content <- MCContent
    MaxMessages = 3
    NewIOBuf = {FALSE}
INVARIANTS ExactUntilException
PROPERTIES LoopEnds
CHECK_DEADLOCK FALSE
