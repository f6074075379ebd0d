SPECIFICATION PlaneSpec
CONSTANTS
    Bits = 2
    Words = 3
    Wrap = 16
    Checks = TRUE
    Copies = 2
    NULL = NULL
    P = P
    Q = Q
    Peers = {P, Q}
    Families = {4, 6}
    Sites = {1}
    Fds = {1, 2}
    MaxMoves = 1
    MaxOutages = 1
INVARIANTS
    SocketsExact
PROPERTIES
    ImplementsWindow
    InOrderNeverRefused
    FastPathRecovers
CHECK_DEADLOCK FALSE
