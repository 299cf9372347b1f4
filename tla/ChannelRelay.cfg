SPECIFICATION Spec
CONSTANTS
  a = a
  b = b
  c = c
  Connections = {a, b, c}
  Channels = {ch1}
  Workers = {w1, w2}
  MaxConnections = 2
  MaxMessages = 2
  PostRetries = 1
  MaxFrames <- FramesOfOne
  MaxFailures = 1
  None = None
SYMMETRY Listeners
INVARIANTS
  TypeOK
  FramesInOrder
  AckedWasRelayed
CHECK_DEADLOCK FALSE
