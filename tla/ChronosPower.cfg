SPECIFICATION FairPowerSpec
CONSTANTS
  Clients = {c1}
  Handler = sigint
  Nobody = nobody
  Tokens = {"a", "b", "v", "w", ",", " ", "__TOMBSTONE__"}
  Verbs = {"SET", "DEL", "COMPACT"}
  Args <- SetAndDelete
  Faults = {}
  MaxLine = 3
  MaxDamage = 1
PROPERTIES DiskKeepsKeys LockReleased
