SPECIFICATION Spec
CONSTANTS
    NULL = NULL
    PublicKeys = {p1, p2, p3}
    Cidrs <- Nested
    AddressBits = 2
    Remotes = {r1, r2, r3}
    Keypairs = {k1, k2}
    MaxPeers = 2
    MaxAllowed = 2
SYMMETRY Symmetry
INVARIANTS
    RoutesAgree
    InitiationsAttributed
