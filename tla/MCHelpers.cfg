\* Both receiving functions over three files; chunks of one byte are buffered, of
\* two not.  An int of three bits: files of 0 to 7 bytes, of which 7 is the int -1.
\* Bytes of two bits: 3 is the largest, 255 the largest uint32_t.
\* Three changes of the directory by others, over all calls.
SPECIFICATION AllSpec
CONSTANTS
    Function   = {"recvFile", "os_recvFile"}
    Ends       <- ThreeFiles
    BufferSize = 2
    Timeouts   = {0, 3}
    Direct     = 2
    Sizes      = {0, 1, 3, 7}
    Calls      = 2
    Block      = 3
    IntMax     = 3
    Byte       = 4
    Chars      = {"0", "3", "9", "f", "x", ".", " "}
    MaxText    = 7
    Name       <- MCName
    Above      <- MCAbove
    Pattern    <- MCPattern
    Lower      <- MCLower
    Malformed  <- MCMalformed
    Matches    <- MCMatches
    Changes    = 3
INVARIANTS
    TypeOK
    OwnBytes
    ReadsInOrder
    ErrorsTold
    AddressTypeOK
    NetworkOrder
    AtonReadsAddress
    ListingSound
    ListingComplete
    ZeroMeansDone
PROPERTIES
    TimedCallReturns
    TouchKeepsData
\* Every helper has made its calls.
CHECK_DEADLOCK FALSE
