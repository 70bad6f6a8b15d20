SPECIFICATION Spec
CONSTANTS
  Clients = {c1}
  Handler = sigint
  Nobody = nobody
  Tokens = {"a", "b", "v", "w", ",", " ", "__TOMBSTONE__"}
  Verbs = {"SET", "DEL", "COMPACT"}
  Args <- Confusing
  Faults = {"kill", "torn", "log_io", "compact_io", "reopen"}
  MaxLine = 6
  MaxDamage = 1
INVARIANTS IntactRecovered CompactionRestores
