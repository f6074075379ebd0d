SPECIFICATION Spec
CONSTANTS
    Keys = {k1, k2}
    NoKey = NoKey
    Addresses = {a1, a2}
    Ports = {1, 2}
    Options = {o1, o2}
    Threads = {t1, t2}
    MaxPeers = 2
    MaxItems = 2
    k1 = k1
    k2 = k2
    a1 = a1
    a2 = a2
    t1 = t1
    t2 = t2
    o1 = o1
    o2 = o2
INVARIANTS
    SocketsSound
    TablesAgree
    PeersServed
PROPERTIES
    CommandsEnd
CHECK_DEADLOCK FALSE
