SPECIFICATION Spec
CONSTANTS
  NaNs = {1679615}
  Zeros = {0, 839808}
  Nibble = 2
  Byte = 6
  BufLen = 60
  NanosPerSecond = 100
  Sent <- MCSent
  Malformed <- MCMalformed
  Depth = 3
  MaxBuffer = 45
INVARIANTS Delivered NothingLeft PrintsPrefix PathsWalkable
CHECK_DEADLOCK FALSE
