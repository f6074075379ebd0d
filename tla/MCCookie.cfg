SPECIFICATION Spec
CONSTANTS
    NULL = NULL
    A = A
    B = B
    Addrs = {A, B}
    Cost = 1
    TokenMax = 2
    Timeout = 2
    SizeMax = 1
    MaxAge = 3
    Latency = 1
    MaxInits = 2
    MaxSecrets = 1
PROPERTIES
    ImplementsBucket
    ForgetsIdle
    CookiesMoveForward
