SPECIFICATION Spec
CONSTANTS
    NULL = NULL
    Remotes = {r1}
    Keypairs = {k1, k2, k3}
    Indices = {i1, i2, i3}
    Users = {u1}
    Callers = {"session"}
    RekeyTimeout = 0
    RejectAfterTime = 0
    RejectInterval = 0
    RejectAfterMessages = 0
    MaxTime = 1
    MaxTimestamp = 1
    MaxIdentities = 2
CHECK_DEADLOCK FALSE
INVARIANT ReadersSafe
