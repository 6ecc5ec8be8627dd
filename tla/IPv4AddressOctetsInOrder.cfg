\* Bytes of one bit.
SPECIFICATION AddressSpec
CONSTANTS
    Byte    = 2
    Chars   = {"0"}
    MaxText = 1
INVARIANT OctetsInOrder
CHECK_DEADLOCK FALSE
