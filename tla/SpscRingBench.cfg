\* One producer that is never cloned, indices of two bits: they wrap around.
SPECIFICATION BenchSpec
CONSTANTS
  RING_CAPACITY = 2
  WORD = 4
  Producers = {p1}
  Events = {e1, e2}
  Zeroed = Zeroed
  Torn = Torn
  MaxPushes = 9
INVARIANTS NoDataRace UnreadIntact
PROPERTY BenchTerminates
