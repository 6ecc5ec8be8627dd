\* The constants of MCHelpers.cfg; only recvFile is called.
SPECIFICATION AllSpec
CONSTANTS
    Function   = {"recvFile"}
    Ends       <- ThreeFiles
    BufferSize = 2
    Timeouts   = {0, 3}
    Direct     = 2
    Sizes      = {0, 1, 3, 7}
    Calls      = 2
    Block      = 3
    IntMax     = 3
    Byte       = 4
    Chars      = {"0", "3", "9", "f", "x", ".", " "}
    MaxText    = 7
    Name       <- MCName
    Above      <- MCAbove
    Pattern    <- MCPattern
    Lower      <- MCLower
    Malformed  <- MCMalformed
    Matches    <- MCMatches
    Changes    = 3
INVARIANT SuccessIsSaved
CHECK_DEADLOCK FALSE
