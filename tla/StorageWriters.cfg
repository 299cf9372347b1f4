SPECIFICATION Spec
CONSTANTS
  Collections = {c1}
  Ids = {i1, i2}
  Sizes = {1, 2}
  Workers = {w1, w2}
  Ops = {"PutBso", "PostColl", "PutColl"}
  Headers = {}
  TTLs = {}
  TicksPerSecond = 2
  FlushAmount = 2
  Existing = {c1}
  MaxTime = 2
  MaxRequests = 3
  MaxFailures = 0
  None = None
  Metadata = Metadata
SYMMETRY WorkerSymmetry
INVARIANT
  CountCoversObjects
CHECK_DEADLOCK FALSE
