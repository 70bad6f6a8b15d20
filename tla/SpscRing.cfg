\* Two sessions, two slots, three laps: every interleaving of their pushes
\* with CELER's pops and every legal stale load.
SPECIFICATION FairSpec
CONSTANTS
  RING_CAPACITY = 2
  WORD = 8
  Producers = {p1, p2}
  Events = {e1, e2}
  Zeroed = Zeroed
  Torn = Torn
  MaxPushes = 6
INVARIANTS TypeOK NoDataRace UnreadIntact
PROPERTIES ImplementsFifo EveryAcceptedDelivered
