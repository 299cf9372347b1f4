SPECIFICATION Spec
CONSTANTS
  Collections = {c1}
  Ids = {i1, i2}
  Sizes = {1, 2}
  Workers = {w1}
  Ops = {"PutBso", "PostColl", "PutColl", "DelBso", "DelIds", "DelColl"}
  Headers = {0, 2}
  TTLs = {1}
  TicksPerSecond = 2
  FlushAmount = 2
  Existing = {}
  MaxTime = 3
  MaxRequests = 3
  MaxFailures = 0
  None = None
  Metadata = Metadata
SYMMETRY IdSymmetry
INVARIANTS
  TypeOK
  ListedWhenStored
  NeverUndercounted
  DeletedMeansGone
  StampCoversObjects
PROPERTIES
  ImplementsAtomicStorage
  ConditionalWriteSafe
CHECK_DEADLOCK FALSE
