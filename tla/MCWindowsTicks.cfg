SPECIFICATION Spec
CONSTANTS
    Setups <- OnlyWindows
    RekeyTimeout = 2
    RekeyAfter = 4
    Jitters = {0, 1}
    RejectAfterTime = 6
    MaxAttempts = 3
    MaxInbound = 2
PROPERTY
    KeyRenewed
