CONSTANTS
  RING_CAPACITY = 1
  MaxAegis = 3
  MaxCeler = 3
  MaxEvents = 2
SPECIFICATION FairSpec
INVARIANTS TypeOK ConsumesPushed AttemptCounts
PROPERTY HandshakeHappens
CHECK_DEADLOCK FALSE
