SPECIFICATION Spec
CONSTANTS
    NULL = NULL
    A = A
    B = B
    Nodes = {A, B}
    Impl <- SessionAndCore
    HasEndpoint = {A, B}
    Indices = {i1, i2, i3}
    RekeyTimeout = 1
    RekeyAfter = 1
    Jitters = {0}
    RejectAfterTime = 2
    MaxAttempts = 1
    Faults = TRUE
    MaxTime = 2
    MaxInitiations <- MoreFromB
    MaxNonce = 1
SYMMETRY Symmetry
INVARIANTS
    AnsweredOnce
    SessionAnswerCompletes
    KeysAgree
PROPERTY
    KeyInstalledOnce
CHECK_DEADLOCK FALSE
