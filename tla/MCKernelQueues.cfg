SPECIFICATION Spec
CONSTANTS
    None = None
    P = P
    A = A
    n1 = n1
    n2 = n2
    Peers = {P}
    Packets = {n1, n2}
    Addresses = {A}
    Threads = {1}
    Workers = {1, 2}
    MaxStaged = 1
    MaxSerial = 2
    MaxParallel = 1
INVARIANTS
    PacketsExact
    PeerOutlivesUse
PROPERTIES
    PacketsMoveOn
    DestroyedFreed
CHECK_DEADLOCK FALSE
