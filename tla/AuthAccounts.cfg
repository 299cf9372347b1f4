\* Three requests at once, two calls that raise.
SPECIFICATION Spec
CONSTANTS
    Request = {r1, r2, r3}
    Email = {e1, e2}
    Subject = {s1, s2}
    None = None
    LegacyEmail = e1
    LegacySubject = s1
    MaxRequests = 3
    MaxFailures = 2
SYMMETRY RequestSymmetry
CHECK_DEADLOCK FALSE
INVARIANTS
    TypeOK
    RegisteredCanSignIn
    NoOrphans
    ProfileIsOwn
    TokensHaveAccounts
