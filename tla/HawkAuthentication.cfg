\* Two processes, one second of patience and of skew.
SPECIFICATION Spec
CONSTANTS
    Process = {p1, p2}
    Skew = 1
    TokenDuration = 4
    CacheTTL = 1
    Patience = 1
    SweepLag = 1
    ReadLag = 0
    MaxKeys = 2
    MaxSigned = 1
    MaxTime = 5
SYMMETRY ProcessSymmetry
CHECK_DEADLOCK FALSE
INVARIANTS
    TypeOK
    AcceptedOnce
    ReplacedKeyFades
    ExpiredIsRefused
