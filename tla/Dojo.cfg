CONSTANTS
  p = p
  q = q
  NaN = NaN
  v1 = v1
  Points = {p, q, NaN}
  Viewers = {v1}
  RING_CAPACITY = 1
  SESSION_POOL_SIZE = 2
  SessionIds = 2
  CHANNEL = 1
  MaxSessions = 2
  MaxFrames = 4
SPECIFICATION FairSpec
INVARIANTS TypeOK MeasuresAsDrawn
PROPERTY NewestShown
CHECK_DEADLOCK FALSE
