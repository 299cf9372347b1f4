SPECIFICATION FairSpec
CONSTANTS
  Collections = {c1, c2}
  Ids = {i1, i2}
  Sizes = {1}
  Workers = {w1}
  Ops = {"PostColl", "DelAll", "GetColl"}
  Headers = {1}
  TTLs = {}
  TicksPerSecond = 2
  FlushAmount = 2
  Existing = {}
  MaxTime = 2
  MaxRequests = 2
  MaxFailures = 1
  None = None
  Metadata = Metadata
INVARIANT
  IncrementalReadComplete
PROPERTY
  EveryRequestAnswered
CHECK_DEADLOCK FALSE
