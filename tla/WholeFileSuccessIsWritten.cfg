\* One call that writes one byte, which the stream buffers.
SPECIFICATION WholeSpec
CONSTANTS
    Sizes  = {1}
    Calls  = 1
    Block  = 1
    Direct = 2
    IntMax = 3
INVARIANT SuccessIsWritten
CHECK_DEADLOCK FALSE
