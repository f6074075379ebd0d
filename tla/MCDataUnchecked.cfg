SPECIFICATION DataSpec
CONSTANTS
    Bits = 2
    Words = 3
    Wrap = 16
    Checks = FALSE
    Copies = 2
INVARIANT
    DeliveredAtMostOnce
CHECK_DEADLOCK FALSE
