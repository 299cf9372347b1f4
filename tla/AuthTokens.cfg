\* Three requests, two of them at once.
SPECIFICATION Spec
CONSTANTS
    Request = {r1, r2}
    Scope = {profile, sync}
    FirstScope = {profile, sync}
    Lifetime = 0
    SessionLifetime = 1
    Lag = 0
    MaxRequests = 3
    MaxTime = 2
SYMMETRY TokenSymmetry
CHECK_DEADLOCK FALSE
INVARIANTS
    TypeOK
    UsedOnce
    RotationNeverForks
    ScopeOnlyNarrows
    RevokedIsRefused
    SignedOutIsRefused
