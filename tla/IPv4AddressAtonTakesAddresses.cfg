\* Bytes of two bits; no number that needs wrapping.
SPECIFICATION AddressSpec
CONSTANTS
    Byte    = 4
    Chars   = {"0", "1", "x", "."}
    MaxText = 4
INVARIANT AtonTakesAddresses
CHECK_DEADLOCK FALSE
