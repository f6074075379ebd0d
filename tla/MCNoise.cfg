SPECIFICATION Spec
CONSTANTS
    NULL = NULL
    Remotes = {r1}
    Keypairs = {k1, k2, k3}
    Indices = {i1, i2, i3}
    Users = {u1}
    Callers = {"kernel", "session"}
    RekeyTimeout = 0
    RejectAfterTime = 0
    RejectInterval = 0
    RejectAfterMessages = 0
    MaxTime = 1
    MaxTimestamp = 1
    MaxIdentities = 2
SYMMETRY Symmetry
INVARIANTS
    IndexTableSound
    RefcountsExact
    CurrentConfirmed
    RotationSound
    SendKeysOfThisIdentity
PROPERTY
    StoppedForGood
CHECK_DEADLOCK FALSE
