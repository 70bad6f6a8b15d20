CONSTANTS
  long = long
  short = short
  other = other
  blank = blank
  Clients = {short, other}
  Size <- MCSize
  Blanks = {}
  POOL_CAPACITY = 2
  BUFFER_SIZE = 8
  MAX_HOT_PIPES = 2
  READ_SIZE = 2
  MaxCrashes = 0
SPECIFICATION Spec
INVARIANT ZeroDropped
CHECK_DEADLOCK FALSE
