\* Three requests at once, stale reads, a history of one.
SPECIFICATION Spec
CONSTANTS
    Request = {r1, r2, r3}
    ClientState = {none, s1, s2}
    NoState = none
    Absent = Absent
    MaxHistory = 1
    TokenDuration = 1
    StaleReads = TRUE
    MaxRequests = 3
    MaxIncrements = 1
    MaxTime = 2
SYMMETRY TokenSymmetry
CHECK_DEADLOCK FALSE
INVARIANTS
    TypeOK
    OneStatePerGeneration
    StatesDistinct
