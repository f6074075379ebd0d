SPECIFICATION AgentSpec
CONSTANTS
    None = None
    Budget = 6
    Wait = 3
    MinReturn = 2
    Floor = 2
    Latency = 1
    MaxHasty = 4
    FailMax = 2
    Cooldown = 2
    MaxRev = 1
    MaxCrashes = 2
    MaxRefusals = 1
INVARIANT
    NeverBusy
CHECK_DEADLOCK FALSE
