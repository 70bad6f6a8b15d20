SPECIFICATION Spec
CONSTANTS
  Clients = {c1, c2}
  Handler = sigint
  Nobody = nobody
  Tokens = {"a", "b", "v", "w", ",", " ", "__TOMBSTONE__"}
  Verbs = {"SET", "DEL", "GET", "COMPACT", "PING", "EXIT", ""}
  Args <- TwoValues
  Faults = {"kill", "compact_io"}
  MaxLine = 5
  MaxDamage = 1
SYMMETRY Symmetry
INVARIANTS TypeOK LogCoversMemory RecoversCommitted
PROPERTY ImplementsKvStore
