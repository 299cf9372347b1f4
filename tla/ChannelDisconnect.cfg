SPECIFICATION Spec
CONSTANTS
  a = a
  b = b
  c = c
  Connections = {a, b}
  Channels = {ch1}
  Workers = {w1, w2}
  MaxConnections = 2
  MaxMessages = 2
  PostRetries = 2
  MaxFrames <- FramesOfTwo
  MaxFailures = 0
  None = None
PROPERTIES
  RemovesOnlyTheLeaving
CHECK_DEADLOCK FALSE
