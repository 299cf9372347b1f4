\* Two pages and one channel; one thing goes wrong, and what follows from it.
SPECIFICATION Spec
CONSTANT MaxFaults = 1
CHECK_DEADLOCK FALSE
INVARIANTS
    TypeOK
    SeenInOrder
    DoneMeansRelayed
    DeclineHolds
PROPERTIES
    AuthoritySettles
    SupplicantSettles
