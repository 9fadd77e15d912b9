SPECIFICATION Spec
CONSTANTS
    Call = {c1, c2, c3, c4}
    Window = {w1}
    Code = {k1}
    Digits = {n1}
    Limit = 1
    MaxFaults = 1
SYMMETRY Calls
INVARIANT PairingTypeOK
INVARIANT OneCredentialEach
INVARIANT NoOrphanClient
INVARIANT SetupEndsUnlessUnmarked
CHECK_DEADLOCK FALSE
