\* Messages within maxFrameLength, reads of any size, fragmented chains.
SPECIFICATION Spec
CONSTANTS
    Base = 2
    lengthFieldLength = 2
    networkByteOrder = TRUE
    prependAdjustment = 0
    lengthIncludesLengthField = FALSE
    maxFrameLength = 4
    lengthFieldOffset = 0
    lengthAdjustment = 0
    initialBytesToStrip = 2
    MaxLength = 2
    Content <- MCContent
    MaxMessages = 3
    NewIOBuf = {FALSE, TRUE}
INVARIANTS NothingHeldBack ParsedIsPrefix
PROPERTIES ImplementsMessageChannel
CHECK_DEADLOCK FALSE
