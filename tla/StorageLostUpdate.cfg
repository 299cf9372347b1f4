SPECIFICATION Spec
CONSTANTS
  Collections = {c1}
  Ids = {i1}
  Sizes = {1}
  Workers = {w1, w2}
  Ops = {"PutBso"}
  Headers = {1}
  TTLs = {}
  TicksPerSecond = 2
  FlushAmount = 2
  Existing = {}
  MaxTime = 3
  MaxRequests = 3
  MaxFailures = 0
  None = None
  Metadata = Metadata
SYMMETRY WorkerSymmetry
PROPERTY
  ConditionalWriteSafe
CHECK_DEADLOCK FALSE
