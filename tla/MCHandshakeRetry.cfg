SPECIFICATION Spec
CONSTANTS
    Setups <- AllSetups
    RekeyTimeout = 2
    RekeyAfter = 4
    Jitters = {0, 1}
    RejectAfterTime = 6
    MaxAttempts = 3
    MaxInbound = 2
PROPERTIES
    HandshakeEnds
    KeyAlwaysRenewed
    CoreReachesPeer
    SessionReachesPeer
